---------------------------- MODULE Spec2Model ----------------------------
(***************************************************************************)
(* A model of Shinkai Shoujo: the privilege_usage / analysis_results       *)
(* store, the OTLP receiver's batched upsert, and the correlation engine   *)
(* with its wildcard-aware set difference.                                 *)
(*                                                                         *)
(* Go strings whose characters the code inspects (privileges) are          *)
(* sequences of one-character strings, so that strings.SplitN,             *)
(* strings.ToLower and strings.EqualFold are computed character by         *)
(* character.  Role names and ARNs are only compared for equality and are  *)
(* plain strings.                                                          *)
(***************************************************************************)
EXTENDS Integers, Sequences, FiniteSets, TLC

(***************************************************************************)
(* Bounds of the model.                                                    *)
(***************************************************************************)
\* longest assigned / used list handed to setDifference
MaxList == 2
\* most records in one receiver batch
MaxBatch == 2
\* latest instant (in ticks) a span, a cutoff or the clock can carry
MaxTime == 2
\* largest call_count a row is allowed to reach
MaxCallCount == 3

\* Ticks per second: time.Time is finer than the whole seconds that
\* Time.Unix() stores in the INTEGER timestamp column.
TicksPerSec == 2

(***************************************************************************)
(* String literals.                                                        *)
(***************************************************************************)
STAR == <<"*">>
COLON == ":"
p_s3_STAR == <<"s", "3", ":", "*">>
p_S3_STAR == <<"S", "3", ":", "*">>
p_s3_GetObject == <<"s", "3", ":", "G", "e", "t", "O", "b", "j", "e", "c", "t">>
p_s3_getobject == <<"s", "3", ":", "g", "e", "t", "o", "b", "j", "e", "c", "t">>
p_s3_HeadObject == <<"s", "3", ":", "H", "e", "a", "d", "O", "b", "j", "e", "c", "t">>
p_ec2_DescribeInstances == <<"e", "c", "2", ":", "D", "e", "s", "c", "r", "i", "b", "e", "I", "n", "s", "t", "a", "n", "c", "e", "s">>
p_lambda_Invoke == <<"l", "a", "m", "b", "d", "a", ":", "I", "n", "v", "o", "k", "e">>
p_lambda_InvokeFunction == <<"l", "a", "m", "b", "d", "a", ":", "I", "n", "v", "o", "k", "e", "F", "u", "n", "c", "t", "i", "o", "n">>
p_admin == <<"a", "d", "m", "i", "n">>

(***************************************************************************)
(* Go's strings package, on sequences of characters.                       *)
(***************************************************************************)
UpperToLower ==
  [c \in {"A","B","C","D","E","F","G","H","I","J","K","L","M","N","O","P","Q",
          "R","S","T","U","V","W","X","Y","Z"} |->
     CASE c = "A" -> "a" [] c = "B" -> "b" [] c = "C" -> "c" [] c = "D" -> "d"
       [] c = "E" -> "e" [] c = "F" -> "f" [] c = "G" -> "g" [] c = "H" -> "h"
       [] c = "I" -> "i" [] c = "J" -> "j" [] c = "K" -> "k" [] c = "L" -> "l"
       [] c = "M" -> "m" [] c = "N" -> "n" [] c = "O" -> "o" [] c = "P" -> "p"
       [] c = "Q" -> "q" [] c = "R" -> "r" [] c = "S" -> "s" [] c = "T" -> "t"
       [] c = "U" -> "u" [] c = "V" -> "v" [] c = "W" -> "w" [] c = "X" -> "x"
       [] c = "Y" -> "y" [] c = "Z" -> "z"]

ToLowerCh(c) == IF c \in DOMAIN UpperToLower THEN UpperToLower[c] ELSE c

\* strings.ToLower
ToLower(s) == [i \in 1..Len(s) |-> ToLowerCh(s[i])]

\* strings.EqualFold: equality under simple case folding
EqualFold(s, t) ==
  /\ Len(s) = Len(t)
  /\ \A i \in 1..Len(s) : ToLowerCh(s[i]) = ToLowerCh(t[i])

\* strings.Index(s, ":"), 1-based; 0 when there is no colon
IndexColon(s) ==
  IF \E i \in 1..Len(s) : s[i] = COLON
  THEN CHOOSE i \in 1..Len(s) :
         /\ s[i] = COLON
         /\ \A j \in 1..(i-1) : s[j] # COLON
  ELSE 0

\* strings.SplitN(s, ":", 2): one part without a colon, else the text before
\* the first colon and everything after it
SplitN(s) ==
  LET i == IndexColon(s) IN
    IF i = 0 THEN <<s>>
    ELSE <<SubSeq(s, 1, i-1), SubSeq(s, i+1, Len(s))>>

\* the set of elements of a list
Range(s) == {s[i] : i \in 1..Len(s)}

\* all lists over S of length at most n
SeqsUpTo(S, n) == UNION {[1..k -> S] : k \in 0..n}

(***************************************************************************)
(* SDK operation name -> IAM action name.                                  *)
(***************************************************************************)
sdkToIAMAction ==
  {
    \* lambda:Invoke -> lambda:InvokeFunction
    <<<<"l", "a", "m", "b", "d", "a", ":", "I", "n", "v", "o", "k", "e">>,
      <<"l", "a", "m", "b", "d", "a", ":", "I", "n", "v", "o", "k", "e", "F", "u", "n", "c", "t", "i", "o", "n">>>>,
    \* lambda:InvokeAsync -> lambda:InvokeFunction
    <<<<"l", "a", "m", "b", "d", "a", ":", "I", "n", "v", "o", "k", "e", "A", "s", "y", "n", "c">>,
      <<"l", "a", "m", "b", "d", "a", ":", "I", "n", "v", "o", "k", "e", "F", "u", "n", "c", "t", "i", "o", "n">>>>,
    \* lambda:InvokeWithQualifier -> lambda:InvokeFunction
    <<<<"l", "a", "m", "b", "d", "a", ":", "I", "n", "v", "o", "k", "e", "W", "i", "t", "h", "Q", "u", "a", "l", "i", "f", "i", "e", "r">>,
      <<"l", "a", "m", "b", "d", "a", ":", "I", "n", "v", "o", "k", "e", "F", "u", "n", "c", "t", "i", "o", "n">>>>,
    \* s3:HeadObject -> s3:GetObject
    <<<<"s", "3", ":", "H", "e", "a", "d", "O", "b", "j", "e", "c", "t">>,
      <<"s", "3", ":", "G", "e", "t", "O", "b", "j", "e", "c", "t">>>>,
    \* s3:HeadBucket -> s3:ListBucket
    <<<<"s", "3", ":", "H", "e", "a", "d", "B", "u", "c", "k", "e", "t">>,
      <<"s", "3", ":", "L", "i", "s", "t", "B", "u", "c", "k", "e", "t">>>>,
    \* s3:CreateBucket -> s3:CreateBucket
    <<<<"s", "3", ":", "C", "r", "e", "a", "t", "e", "B", "u", "c", "k", "e", "t">>,
      <<"s", "3", ":", "C", "r", "e", "a", "t", "e", "B", "u", "c", "k", "e", "t">>>>,
    \* ec2:RunInstances -> ec2:RunInstances
    <<<<"e", "c", "2", ":", "R", "u", "n", "I", "n", "s", "t", "a", "n", "c", "e", "s">>,
      <<"e", "c", "2", ":", "R", "u", "n", "I", "n", "s", "t", "a", "n", "c", "e", "s">>>>,
    \* ec2:StartInstance -> ec2:StartInstances
    <<<<"e", "c", "2", ":", "S", "t", "a", "r", "t", "I", "n", "s", "t", "a", "n", "c", "e">>,
      <<"e", "c", "2", ":", "S", "t", "a", "r", "t", "I", "n", "s", "t", "a", "n", "c", "e", "s">>>>,
    \* ec2:StopInstance -> ec2:StopInstances
    <<<<"e", "c", "2", ":", "S", "t", "o", "p", "I", "n", "s", "t", "a", "n", "c", "e">>,
      <<"e", "c", "2", ":", "S", "t", "o", "p", "I", "n", "s", "t", "a", "n", "c", "e", "s">>>>,
    \* sts:AssumeRoleWithWebIdentity -> sts:AssumeRoleWithWebIdentity
    <<<<"s", "t", "s", ":", "A", "s", "s", "u", "m", "e", "R", "o", "l", "e", "W", "i", "t", "h", "W", "e", "b", "I", "d", "e", "n", "t", "i", "t", "y">>,
      <<"s", "t", "s", ":", "A", "s", "s", "u", "m", "e", "R", "o", "l", "e", "W", "i", "t", "h", "W", "e", "b", "I", "d", "e", "n", "t", "i", "t", "y">>>>,
    \* sts:GetCallerIdentity -> sts:GetCallerIdentity
    <<<<"s", "t", "s", ":", "G", "e", "t", "C", "a", "l", "l", "e", "r", "I", "d", "e", "n", "t", "i", "t", "y">>,
      <<"s", "t", "s", ":", "G", "e", "t", "C", "a", "l", "l", "e", "r", "I", "d", "e", "n", "t", "i", "t", "y">>>>,
    \* dynamodb:BatchGetItem -> dynamodb:BatchGetItem
    <<<<"d", "y", "n", "a", "m", "o", "d", "b", ":", "B", "a", "t", "c", "h", "G", "e", "t", "I", "t", "e", "m">>,
      <<"d", "y", "n", "a", "m", "o", "d", "b", ":", "B", "a", "t", "c", "h", "G", "e", "t", "I", "t", "e", "m">>>>,
    \* dynamodb:BatchWriteItem -> dynamodb:BatchWriteItem
    <<<<"d", "y", "n", "a", "m", "o", "d", "b", ":", "B", "a", "t", "c", "h", "W", "r", "i", "t", "e", "I", "t", "e", "m">>,
      <<"d", "y", "n", "a", "m", "o", "d", "b", ":", "B", "a", "t", "c", "h", "W", "r", "i", "t", "e", "I", "t", "e", "m">>>>,
    \* kinesis:PutRecord -> kinesis:PutRecord
    <<<<"k", "i", "n", "e", "s", "i", "s", ":", "P", "u", "t", "R", "e", "c", "o", "r", "d">>,
      <<"k", "i", "n", "e", "s", "i", "s", ":", "P", "u", "t", "R", "e", "c", "o", "r", "d">>>>,
    \* kinesis:PutRecords -> kinesis:PutRecords
    <<<<"k", "i", "n", "e", "s", "i", "s", ":", "P", "u", "t", "R", "e", "c", "o", "r", "d", "s">>,
      <<"k", "i", "n", "e", "s", "i", "s", ":", "P", "u", "t", "R", "e", "c", "o", "r", "d", "s">>>>,
    \* cloudwatch:PutMetricData -> cloudwatch:PutMetricData
    <<<<"c", "l", "o", "u", "d", "w", "a", "t", "c", "h", ":", "P", "u", "t", "M", "e", "t", "r", "i", "c", "D", "a", "t", "a">>,
      <<"c", "l", "o", "u", "d", "w", "a", "t", "c", "h", ":", "P", "u", "t", "M", "e", "t", "r", "i", "c", "D", "a", "t", "a">>>>,
    \* sns:Publish -> sns:Publish
    <<<<"s", "n", "s", ":", "P", "u", "b", "l", "i", "s", "h">>,
      <<"s", "n", "s", ":", "P", "u", "b", "l", "i", "s", "h">>>>,
    \* sqs:SendMessage -> sqs:SendMessage
    <<<<"s", "q", "s", ":", "S", "e", "n", "d", "M", "e", "s", "s", "a", "g", "e">>,
      <<"s", "q", "s", ":", "S", "e", "n", "d", "M", "e", "s", "s", "a", "g", "e">>>>,
    \* sqs:ReceiveMessage -> sqs:ReceiveMessage
    <<<<"s", "q", "s", ":", "R", "e", "c", "e", "i", "v", "e", "M", "e", "s", "s", "a", "g", "e">>,
      <<"s", "q", "s", ":", "R", "e", "c", "e", "i", "v", "e", "M", "e", "s", "s", "a", "g", "e">>>>,
    \* sqs:DeleteMessage -> sqs:DeleteMessage
    <<<<"s", "q", "s", ":", "D", "e", "l", "e", "t", "e", "M", "e", "s", "s", "a", "g", "e">>,
      <<"s", "q", "s", ":", "D", "e", "l", "e", "t", "e", "M", "e", "s", "s", "a", "g", "e">>>>,
    \* sqs:ChangeMessageVisibility -> sqs:ChangeMessageVisibility
    <<<<"s", "q", "s", ":", "C", "h", "a", "n", "g", "e", "M", "e", "s", "s", "a", "g", "e", "V", "i", "s", "i", "b", "i", "l", "i", "t", "y">>,
      <<"s", "q", "s", ":", "C", "h", "a", "n", "g", "e", "M", "e", "s", "s", "a", "g", "e", "V", "i", "s", "i", "b", "i", "l", "i", "t", "y">>>>
  }

\* MapSDKToIAM: the mapped action when the table has the key, else the input.
\* The second lookup rebuilds the key from the two parts of the privilege.
MapSDKToIAM(privilege) ==
  IF \E kv \in sdkToIAMAction : kv[1] = privilege
  THEN (CHOOSE kv \in sdkToIAMAction : kv[1] = privilege)[2]
  ELSE LET parts == SplitN(privilege) IN
         IF Len(parts) = 2
         THEN LET key == parts[1] \o <<COLON>> \o parts[2] IN
                IF \E kv \in sdkToIAMAction : kv[1] = key
                THEN (CHOOSE kv \in sdkToIAMAction : kv[1] = key)[2]
                ELSE privilege
         ELSE privilege

(***************************************************************************)
(* correlation: wildcard-aware set difference.                             *)
(***************************************************************************)
\* isPrivilegeUsed without its direct-match test
isPrivilegeUsed_NoDirect(assigned, used, usedSet) ==
  LET aParts == SplitN(assigned)
      aService == IF Len(aParts) = 2 THEN aParts[1] ELSE <<>>
      aAction == IF Len(aParts) = 2 THEN aParts[2] ELSE assigned
  IN IF assigned = STAR THEN Len(used) > 0
     ELSE IF aAction = STAR
     THEN \E i \in 1..Len(used) :
            LET uParts == SplitN(used[i]) IN
              Len(uParts) = 2 /\ EqualFold(uParts[1], aService)
     ELSE \E i \in 1..Len(used) :
            \/ used[i] = STAR
            \/ LET uParts == SplitN(used[i]) IN
                 /\ Len(uParts) = 2
                 /\ EqualFold(uParts[1], aService)
                 /\ uParts[2] = STAR

\* isPrivilegeUsed counting an assigned "*" as used even when nothing was observed
isPrivilegeUsed_StarAlwaysUsed(assigned, used, usedSet) ==
  IF assigned \in usedSet THEN TRUE
  ELSE
  LET aParts == SplitN(assigned)
      aService == IF Len(aParts) = 2 THEN aParts[1] ELSE <<>>
      aAction == IF Len(aParts) = 2 THEN aParts[2] ELSE assigned
  IN IF assigned = STAR THEN TRUE
     ELSE IF aAction = STAR
     THEN \E i \in 1..Len(used) :
            LET uParts == SplitN(used[i]) IN
              Len(uParts) = 2 /\ EqualFold(uParts[1], aService)
     ELSE \E i \in 1..Len(used) :
            \/ used[i] = STAR
            \/ LET uParts == SplitN(used[i]) IN
                 /\ Len(uParts) = 2
                 /\ EqualFold(uParts[1], aService)
                 /\ uParts[2] = STAR

\* isPrivilegeUsed comparing the service prefix with == instead of EqualFold
isPrivilegeUsed_CaseSensitive(assigned, used, usedSet) ==
  IF assigned \in usedSet THEN TRUE
  ELSE
  LET aParts == SplitN(assigned)
      aService == IF Len(aParts) = 2 THEN aParts[1] ELSE <<>>
      aAction == IF Len(aParts) = 2 THEN aParts[2] ELSE assigned
  IN IF assigned = STAR THEN Len(used) > 0
     ELSE IF aAction = STAR
     THEN \E i \in 1..Len(used) :
            LET uParts == SplitN(used[i]) IN
              Len(uParts) = 2 /\ uParts[1] = aService
     ELSE \E i \in 1..Len(used) :
            \/ used[i] = STAR
            \/ LET uParts == SplitN(used[i]) IN
                 /\ Len(uParts) = 2
                 /\ uParts[1] = aService
                 /\ uParts[2] = STAR

\* isPrivilegeUsed: is the assigned privilege covered by the used list
isPrivilegeUsed(assigned, used, usedSet) ==
  \* direct match
  IF assigned \in usedSet THEN TRUE
  ELSE
  LET aParts == SplitN(assigned)
      aService == IF Len(aParts) = 2 THEN aParts[1] ELSE <<>>
      aAction == IF Len(aParts) = 2 THEN aParts[2] ELSE assigned
  IN \* global wildcard: used if any privilege was observed
     IF assigned = STAR THEN Len(used) > 0
     \* service wildcard: used if any observation has that service
     ELSE IF aAction = STAR
     THEN \E i \in 1..Len(used) :
            LET uParts == SplitN(used[i]) IN
              Len(uParts) = 2 /\ EqualFold(uParts[1], aService)
     \* a used wildcard that covers this action
     ELSE \E i \in 1..Len(used) :
            \/ used[i] = STAR
            \/ LET uParts == SplitN(used[i]) IN
                 /\ Len(uParts) = 2
                 /\ EqualFold(uParts[1], aService)
                 /\ uParts[2] = STAR

RECURSIVE unusedLoop(_, _, _, _)
\* the loop of setDifference from index i on: appends each uncovered element
unusedLoop(assigned, used, usedSet, i) ==
  IF i > Len(assigned) THEN <<>>
  ELSE IF isPrivilegeUsed(assigned[i], used, usedSet)
       THEN unusedLoop(assigned, used, usedSet, i + 1)
       ELSE <<assigned[i]>> \o unusedLoop(assigned, used, usedSet, i + 1)

\* setDifference that also reports what it found used
setDifference_KeepUsed(assigned, used) ==
  unusedLoop(assigned, used, Range(used), 1) \o used

\* setDifference: assigned minus used, respecting wildcards (nil is the empty list)
setDifference(assigned, used) ==
  IF Len(assigned) = 0 THEN <<>>
  ELSE LET usedSet == Range(used) IN unusedLoop(assigned, used, usedSet, 1)

(***************************************************************************)
(* storage: the privilege_usage table and its statements.                  *)
(*                                                                         *)
(* A row is [timestamp, iam_role, privilege, call_count]; the table is the *)
(* set of its rows.  The id column is read by no statement and is left     *)
(* out.  A PrivilegeUsageRecord is [Timestamp, IAMRole, Privilege,         *)
(* CallCount] with Timestamp in ticks.                                     *)
(***************************************************************************)
Max(a, b) == IF a >= b THEN a ELSE b

\* time.Time.Unix(): whole seconds
Unix(t) == t \div TicksPerSec

\* the upsert with a plain INSERT (no UNIQUE constraint to conflict with)
Upsert_InsertOnly(tbl, r) ==
  tbl \cup {[timestamp |-> Unix(r.Timestamp), iam_role |-> r.IAMRole,
             privilege |-> r.Privilege, call_count |-> r.CallCount]}

\* the upsert overwriting the timestamp with the incoming one
Upsert_LastWins(tbl, r) ==
  LET ts == Unix(r.Timestamp)
      hit == {x \in tbl : x.iam_role = r.IAMRole /\ x.privilege = r.Privilege}
  IN IF hit = {}
     THEN tbl \cup {[timestamp |-> ts, iam_role |-> r.IAMRole,
                     privilege |-> r.Privilege, call_count |-> r.CallCount]}
     ELSE (tbl \ hit) \cup
          {[x EXCEPT !.timestamp = ts,
                     !.call_count = x.call_count + r.CallCount] : x \in hit}

\* INSERT ... ON CONFLICT(iam_role, privilege) DO UPDATE SET
\*   timestamp = MAX(old, excluded), call_count = old + excluded
Upsert(tbl, r) ==
  LET ts == Unix(r.Timestamp)
      hit == {x \in tbl : x.iam_role = r.IAMRole /\ x.privilege = r.Privilege}
  IN IF hit = {}
     THEN tbl \cup {[timestamp |-> ts, iam_role |-> r.IAMRole,
                     privilege |-> r.Privilege, call_count |-> r.CallCount]}
     ELSE (tbl \ hit) \cup
          {[x EXCEPT !.timestamp = Max(x.timestamp, ts),
                     !.call_count = x.call_count + r.CallCount] : x \in hit}

RECURSIVE ApplyBatch(_, _)
\* BatchRecordPrivilegeUsage when every statement and the commit succeed
ApplyBatch(tbl, records) ==
  IF Len(records) = 0 THEN tbl
  ELSE ApplyBatch(Upsert(tbl, Head(records)), Tail(records))

\* a rollback that keeps what the statements wrote
Rollback_KeepWork(committed, work) == work

\* tx.Rollback(): the table is the committed one
Rollback(committed, work) == committed

\* a DELETE that also removes the rows of the cutoff's own second
PurgeOldRecords_Inclusive(tbl, before) == {x \in tbl : ~(x.timestamp <= Unix(before))}

\* a SELECT that leaves out the rows of the cutoff's own second
GetObservedRoles_Strict(tbl, since) ==
  {x.iam_role : x \in {y \in tbl : y.timestamp > Unix(since)}}

\* DELETE FROM privilege_usage WHERE timestamp < ?
PurgeOldRecords(tbl, before) == {x \in tbl : ~(x.timestamp < Unix(before))}

\* SELECT DISTINCT iam_role FROM privilege_usage WHERE timestamp >= ?
GetObservedRoles(tbl, since) ==
  {x.iam_role : x \in {y \in tbl : y.timestamp >= Unix(since)}}

\* SELECT DISTINCT privilege FROM privilege_usage
\*   WHERE iam_role = ? AND timestamp >= ?
GetUsedPrivilegesForRole(tbl, role, since) ==
  {x.privilege : x \in {y \in tbl : y.iam_role = role /\ y.timestamp >= Unix(since)}}

(***************************************************************************)
(* storage: the analysis_results table.                                    *)
(***************************************************************************)
\* the column lists of analysis_results that carry a PRIMARY KEY or UNIQUE
\* constraint: migrate declares only the id primary key (the two indexes on
\* iam_role and analysis_date are plain indexes)
analysis_results_unique == {<<"id">>}

\* json.Marshal of a []string: the JSON text, one character per element
\* (the privileges here hold no character that JSON escapes)
jsonQuote == "\""
RECURSIVE jsonElems(_, _)
jsonElems(l, i) ==
  IF i > Len(l) THEN <<>>
  ELSE (IF i > 1 THEN <<",">> ELSE <<>>) \o <<jsonQuote>> \o l[i] \o <<jsonQuote>>
       \o jsonElems(l, i + 1)

jsonMarshal(l) == <<"[">> \o jsonElems(l, 1) \o <<"]">>

\* json.Unmarshal into a []string: the string literals of the array, in
\* order
RECURSIVE jsonScan(_, _, _, _, _)
jsonScan(text, i, inString, cur, out) ==
  IF i > Len(text) THEN out
  ELSE IF text[i] = jsonQuote
       THEN IF inString
            THEN jsonScan(text, i + 1, FALSE, <<>>, Append(out, cur))
            ELSE jsonScan(text, i + 1, TRUE, <<>>, out)
       ELSE IF inString
            THEN jsonScan(text, i + 1, TRUE, Append(cur, text[i]), out)
            ELSE jsonScan(text, i + 1, FALSE, cur, out)

jsonUnmarshal(text) == jsonScan(text, 1, FALSE, <<>>, <<>>)

\* INSERT ... ON CONFLICT(iam_role) DO UPDATE SET ...: SQLite rejects a
\* conflict target that matches no PRIMARY KEY or UNIQUE constraint, and the
\* statement then writes nothing.  Result: [err, tbl].
SaveAnalysisResult(tbl, r) ==
  IF <<"iam_role">> \notin analysis_results_unique
  THEN [err |-> TRUE, tbl |-> tbl]
  ELSE [err |-> FALSE,
        tbl |-> {x \in tbl : x.iam_role # r.IAMRole} \cup
                {[analysis_date |-> Unix(r.AnalysisDate), iam_role |-> r.IAMRole,
                  assigned_privileges |-> jsonMarshal(r.AssignedPrivs),
                  used_privileges |-> jsonMarshal(r.UsedPrivs),
                  unused_privileges |-> jsonMarshal(r.UnusedPrivs),
                  risk_level |-> r.RiskLevel]}]

(***************************************************************************)
(* correlation: risk classification.                                       *)
(***************************************************************************)
RiskHigh == "HIGH"
RiskMedium == "MEDIUM"
RiskLow == "LOW"

highPrefixes ==
  << <<"D","e","l","e","t","e">>, <<"T","e","r","m","i","n","a","t","e">> >>
lowPrefixes ==
  << <<"D","e","s","c","r","i","b","e">>, <<"L","i","s","t">>, <<"G","e","t">> >>
mediumPrefixes ==
  << <<"C","r","e","a","t","e">>, <<"P","u","t">>, <<"M","o","d","i","f","y">>,
     <<"U","p","d","a","t","e">>, <<"A","t","t","a","c","h">>,
     <<"D","e","t","a","c","h">> >>

\* strings.HasPrefix
HasPrefix(s, p) == Len(s) >= Len(p) /\ SubSeq(s, 1, Len(p)) = p

\* strings.HasSuffix
HasSuffix(s, p) == Len(s) >= Len(p) /\ SubSeq(s, Len(s) - Len(p) + 1, Len(s)) = p

\* a classifier that tests the HIGH prefixes before the wildcard
ClassifyPrivilege_PrefixFirst(privilege) ==
  LET parts == SplitN(privilege)
      action == IF Len(parts) = 2 THEN parts[2] ELSE privilege
  IN IF \E i \in 1..Len(highPrefixes) : HasPrefix(action, highPrefixes[i])
     THEN RiskHigh
     ELSE IF action = STAR \/ HasSuffix(action, STAR) THEN RiskMedium
     ELSE IF \E i \in 1..Len(lowPrefixes) : HasPrefix(action, lowPrefixes[i])
     THEN RiskLow
     ELSE RiskMedium

\* ClassifyPrivilege: the risk level of one privilege, by its action part
ClassifyPrivilege(privilege) ==
  LET parts == SplitN(privilege)
      action == IF Len(parts) = 2 THEN parts[2] ELSE privilege
  IN IF action = STAR \/ HasSuffix(action, STAR) THEN RiskMedium
     ELSE IF \E i \in 1..Len(highPrefixes) : HasPrefix(action, highPrefixes[i])
     THEN RiskHigh
     ELSE IF \E i \in 1..Len(lowPrefixes) : HasPrefix(action, lowPrefixes[i])
     THEN RiskLow
     ELSE IF \E i \in 1..Len(mediumPrefixes) : HasPrefix(action, mediumPrefixes[i])
     THEN RiskMedium
     ELSE RiskMedium

RECURSIVE classifyLoop(_, _, _)
\* the loop of ClassifySet from index i on, with the highest level so far
classifyLoop(privileges, i, highest) ==
  IF i > Len(privileges) THEN highest
  ELSE LET level == ClassifyPrivilege(privileges[i]) IN
         IF level = RiskHigh THEN RiskHigh
         ELSE classifyLoop(privileges, i + 1,
                           IF level = RiskMedium THEN RiskMedium ELSE highest)

\* a ClassifySet that keeps the level of the last element
ClassifySet_LastWins(privileges) ==
  IF Len(privileges) = 0 THEN RiskLow
  ELSE ClassifyPrivilege(privileges[Len(privileges)])

\* ClassifySet: the highest risk level of a list; LOW when it is empty
ClassifySet(privileges) ==
  IF Len(privileges) = 0 THEN RiskLow
  ELSE classifyLoop(privileges, 1, RiskLow)

(***************************************************************************)
(* correlation: Engine.Run.                                                *)
(***************************************************************************)
\* a roleMap that also answers for a role the scrape did not return
roleMap_AnyRole(assignments) ==
  LET keys == UNION {{assignments[i].RoleARN, assignments[i].RoleName} :
                       i \in 1..Len(assignments)}
  IN [k \in keys \cup {"arn:aws:iam::123:role/Unscraped"} |-> assignments[1]]

\* roleMap: role ARN or name -> assignment; a later assignment overwrites
roleMap(assignments) ==
  LET keys == UNION {{assignments[i].RoleARN, assignments[i].RoleName} :
                       i \in 1..Len(assignments)}
      last(k) == CHOOSE i \in 1..Len(assignments) :
                   /\ k \in {assignments[i].RoleARN, assignments[i].RoleName}
                   /\ \A j \in (i+1)..Len(assignments) :
                        k \notin {assignments[j].RoleARN, assignments[j].RoleName}
  IN [k \in keys |-> assignments[last(k)]]

\* the lists that hold each element of a finite set exactly once: the orders
\* in which a SELECT without ORDER BY can return its rows
Orderings(S) ==
  {s \in [1..Cardinality(S) -> S] : \A x \in S : \E i \in DOMAIN s : s[i] = x}

\* a loop that leaves the SDK names as they are
mapUsed_NoMapping(usedRaw) == usedRaw

\* the loop of correlateRole that maps SDK names to IAM names
mapUsed(usedRaw) == [i \in 1..Len(usedRaw) |-> MapSDKToIAM(usedRaw[i])]

\* a correlateRole that classifies what is assigned, not what is unused
correlateResult_RiskOfAssigned(assignment, observedRole, usedRaw, now) ==
  LET used == mapUsed(usedRaw)
  IN [IAMRole |-> observedRole, Assigned |-> assignment.Privileges,
      Used |-> used, Unused |-> setDifference(assignment.Privileges, used),
      RiskLevel |-> ClassifySet(assignment.Privileges), AnalyzedAt |-> now]

\* correlateRole: the Result for one observed role, given the rows the
\* used-privileges query returned
correlateResult(assignment, observedRole, usedRaw, now) ==
  LET used == mapUsed(usedRaw)
      unused == setDifference(assignment.Privileges, used)
  IN [IAMRole |-> observedRole, Assigned |-> assignment.Privileges,
      Used |-> used, Unused |-> unused,
      RiskLevel |-> ClassifySet(unused), AnalyzedAt |-> now]

\* the Result of a role with no observation in the window
unobservedResult(assignment, now) ==
  [IAMRole |-> assignment.RoleARN, Assigned |-> assignment.Privileges,
   Used |-> <<>>, Unused |-> assignment.Privileges,
   RiskLevel |-> ClassifySet(assignment.Privileges), AnalyzedAt |-> now]

\* saveResult: the storage.AnalysisResult built from a Result
toAnalysisResult(r) ==
  [AnalysisDate |-> r.AnalyzedAt, IAMRole |-> r.IAMRole,
   AssignedPrivs |-> r.Assigned, UsedPrivs |-> r.Used,
   UnusedPrivs |-> r.Unused, RiskLevel |-> r.RiskLevel]

(***************************************************************************)
(* The inputs of the model.                                                *)
(***************************************************************************)
\* one scraped role under its two names, a second scraped role, and a role
\* that telemetry reports but the scrape does not return
RoleA_ARN == "arn:aws:iam::123:role/MyRole"
RoleA_Name == "MyRole"
RoleB_ARN == "arn:aws:iam::123:role/OtherRole"
RoleB_Name == "OtherRole"
RoleUnscraped == "arn:aws:iam::123:role/Unscraped"

\* the (iam_role, privilege) pairs the receiver's spans carry
SpanPairs ==
  { <<RoleA_ARN, p_s3_GetObject>>, <<RoleA_Name, p_s3_GetObject>> }

\* the records parseTraces can hand to BatchRecordPrivilegeUsage: CallCount
\* is always 1, the timestamp is the span's start time
SpanRecords ==
  {[Timestamp |-> t, IAMRole |-> p[1], Privilege |-> p[2], CallCount |-> 1] :
     t \in 0..MaxTime, p \in SpanPairs}

\* the lists setDifference is tried on
PrivUniverse ==
  {STAR, p_s3_STAR, p_S3_STAR, p_s3_GetObject, p_s3_getobject,
   p_ec2_DescribeInstances, p_admin}

Reqs == {1, 2}

VARIABLES
  privilege_usage,   \* the privilege_usage table as committed
  analysis_results,  \* the analysis_results table
  tx,                \* per receiver request: its BatchRecordPrivilegeUsage call
  ledger,            \* history: per pair, what was committed since its row last appeared
  now,               \* the clock, in ticks
  assignments,       \* the scraper's []RoleAssignment handed to Engine.Run
  eng,               \* the Engine.Run call in progress
  fn                 \* a call of a pure function: its arguments and result

vars == <<privilege_usage, analysis_results, tx, ledger, now, assignments, eng, fn>>

txIdle == [pc |-> "idle", done |-> <<>>, work |-> {}, n |-> 0]
engIdle ==
  [pc |-> "idle", since |-> 0, now |-> 0, todo |-> {}, i |-> 0,
   results |-> <<>>, processedRoles |-> {}, failed |-> {}]
fnIdle == [pc |-> "none"]
ledgerEmpty == [p \in SpanPairs |-> [max |-> 0, sum |-> 0]]

(***************************************************************************)
(* The receiver: handleTraces -> BatchRecordPrivilegeUsage.                *)
(*                                                                         *)
(* Each request runs on its own pooled connection.  BEGIN is deferred:     *)
(* the first INSERT takes SQLite's single write lock, which the            *)
(* transaction keeps until it commits or rolls back; while another         *)
(* connection holds it a write fails with SQLITE_BUSY.  What a transaction *)
(* wrote is in tx[r].work and reaches privilege_usage on commit.  The      *)
(* records of the batch are revealed one by one as the loop ranges over    *)
(* them; tx[r].done is the part of the batch executed so far.              *)
(***************************************************************************)
writer == {r \in Reqs : tx[r].pc = "writing"}

\* handleTraces got a non-empty batch; BatchRecordPrivilegeUsage: BeginTx
\* and PrepareContext succeed
BeginTx(r) ==
  /\ tx[r].pc = "idle"
  /\ tx' = [tx EXCEPT ![r] = [txIdle EXCEPT !.pc = "begun"]]
  /\ UNCHANGED <<privilege_usage, analysis_results, ledger, now, assignments, eng, fn>>

\* one iteration of the loop: stmt.ExecContext succeeds
ExecRecord(r) ==
  /\ tx[r].pc \in {"begun", "writing"}
  /\ writer \subseteq {r}
  /\ Len(tx[r].done) < MaxBatch
  /\ \E rec \in SpanRecords :
       LET base == IF tx[r].pc = "begun" THEN privilege_usage ELSE tx[r].work
           w == Upsert(base, rec)
       IN /\ \A x \in w : x.call_count <= MaxCallCount
          /\ tx' = [tx EXCEPT ![r] = [pc |-> "writing",
                                      done |-> Append(tx[r].done, rec),
                                      work |-> w, n |-> 0]]
  /\ UNCHANGED <<privilege_usage, analysis_results, ledger, now, assignments, eng, fn>>

\* a statement or tx.Commit fails (SQLITE_BUSY, a cancelled request context,
\* an I/O error): the deferred tx.Rollback runs and the handler answers 500
TxFail(r) ==
  /\ tx[r].pc \in {"begun", "writing"}
  /\ privilege_usage' =
       Rollback(privilege_usage,
                IF tx[r].pc = "writing" THEN tx[r].work ELSE privilege_usage)
  /\ tx' = [tx EXCEPT ![r] = [txIdle EXCEPT !.pc = "failed", !.n = Len(tx[r].done)]]
  /\ UNCHANGED <<analysis_results, ledger, now, assignments, eng, fn>>

RECURSIVE SumCounts(_, _)
\* the call counts of the records of a batch that are for pair p
SumCounts(records, p) ==
  IF Len(records) = 0 THEN 0
  ELSE (IF <<Head(records).IAMRole, Head(records).Privilege>> = p
        THEN Head(records).CallCount ELSE 0) + SumCounts(Tail(records), p)

\* the ledger after a batch is committed: per pair, the latest submitted
\* timestamp (in the whole seconds the column stores) and the call counts
LedgerAdd(l, records) ==
  [p \in SpanPairs |->
     LET mine == {i \in 1..Len(records) :
                    <<records[i].IAMRole, records[i].Privilege>> = p}
         seen == (IF l[p].sum > 0 THEN {l[p].max} ELSE {}) \cup
                 {Unix(records[i].Timestamp) : i \in mine}
     IN IF mine = {} THEN l[p]
        ELSE [max |-> CHOOSE m \in seen : \A k \in seen : m >= k,
              sum |-> l[p].sum + SumCounts(records, p)]]

\* the ledger after a purge: a pair whose latest timestamp is before the
\* cutoff second starts afresh
LedgerPurge(l, before) ==
  [p \in SpanPairs |->
     IF l[p].sum > 0 /\ l[p].max < Unix(before)
     THEN [max |-> 0, sum |-> 0] ELSE l[p]]

\* the loop is over and tx.Commit succeeds; the handler answers 200
Commit(r) ==
  /\ tx[r].pc = "writing"
  /\ privilege_usage' = tx[r].work
  /\ ledger' = LedgerAdd(ledger, tx[r].done)
  /\ tx' = [tx EXCEPT ![r] = [txIdle EXCEPT !.pc = "committed", !.n = Len(tx[r].done)]]
  /\ UNCHANGED <<analysis_results, now, assignments, eng, fn>>

\* the response is written and the connection serves its next request
Respond(r) ==
  /\ tx[r].pc \in {"failed", "committed"}
  /\ tx' = [tx EXCEPT ![r] = txIdle]
  /\ UNCHANGED <<privilege_usage, analysis_results, ledger, now, assignments, eng, fn>>

\* db.PurgeOldRecords(before): one autocommitted DELETE, which needs the
\* write lock
Purge ==
  /\ writer = {}
  /\ \E before \in 0..(MaxTime + TicksPerSec) :
       /\ privilege_usage' = PurgeOldRecords(privilege_usage, before)
       /\ ledger' = LedgerPurge(ledger, before)
  /\ UNCHANGED <<analysis_results, tx, now, assignments, eng, fn>>

Init ==
  /\ privilege_usage = {}
  /\ analysis_results = {}
  /\ tx = [r \in Reqs |-> txIdle]
  /\ ledger = ledgerEmpty
  /\ now = 0
  /\ assignments = <<>>
  /\ eng = engIdle
  /\ fn = fnIdle

Next ==
  \/ \E r \in Reqs : BeginTx(r)
  \/ \E r \in Reqs : ExecRecord(r)
  \/ \E r \in Reqs : TxFail(r)
  \/ \E r \in Reqs : Commit(r)
  \/ \E r \in Reqs : Respond(r)
  \/ Purge

Spec == Init /\ [][Next]_vars

(***************************************************************************)
(* Properties of the store under concurrent receiver requests (Spec).      *)
(***************************************************************************)
\* the rows of a table that are for pair p
RowsOf(tbl, p) == {x \in tbl : x.iam_role = p[1] /\ x.privilege = p[2]}

\* C1: whatever batches and purges ran, in whatever interleaving, the
\* privilege_usage table (as committed, and as every open transaction sees
\* it) holds at most one row per (iam_role, privilege) pair.
C1_OneRowPerPair ==
  \A tbl \in {privilege_usage} \cup {tx[r].work : r \in Reqs} :
    \A x, y \in tbl :
      (x.iam_role = y.iam_role /\ x.privilege = y.privilege) => x = y

\* C1 witness: both pairs have a row and an insert has hit an existing row
C1_Witness ==
  /\ \A p \in SpanPairs : RowsOf(privilege_usage, p) # {}
  /\ \E x \in privilege_usage : x.call_count >= 2

\* C2: for every pair, the stored row carries the latest of the timestamps
\* committed for it (in whole seconds) and the sum of their call counts,
\* counted since the pair's row last came into being; a pair nothing was
\* committed for has no row.
C2_MaxTimestampSumCount ==
  \A p \in SpanPairs :
    RowsOf(privilege_usage, p) =
      IF ledger[p].sum = 0 THEN {}
      ELSE {[timestamp |-> ledger[p].max, iam_role |-> p[1],
             privilege |-> p[2], call_count |-> ledger[p].sum]}

\* C2 witness: a batch of two records was committed, a pair has received
\* several records and its row carries a timestamp that is not the first
\* second
C2_Witness ==
  /\ \E r \in Reqs : tx[r].pc = "committed" /\ tx[r].n = 2
  /\ \E p \in SpanPairs :
       /\ ledger[p].sum >= 2 /\ ledger[p].max >= 1
       /\ \E x \in privilege_usage : x.iam_role = p[1] /\ x.call_count = ledger[p].sum

\* C3: a request that fails leaves the committed table as it was, and the
\* committed table (all that another request or a query reads) only ever
\* changes by the whole batch of one request, or by a purge.
C3_AllOrNothing ==
  [][ /\ \A r \in Reqs :
           (tx[r].pc # "failed" /\ tx'[r].pc = "failed")
             => privilege_usage' = privilege_usage
      /\ (privilege_usage' # privilege_usage) =>
           \/ \E r \in Reqs :
                /\ tx[r].pc = "writing" /\ tx'[r].pc = "committed"
                /\ privilege_usage' = ApplyBatch(privilege_usage, tx[r].done)
           \/ /\ tx' = tx
              /\ \E before \in 0..(MaxTime + TicksPerSec) :
                   privilege_usage' = PurgeOldRecords(privilege_usage, before)
    ]_vars

\* C3 witness: a request failed after some of its records were executed
C3_Witness ==
  \E r \in Reqs : tx[r].pc = "failed" /\ tx[r].n >= 1


(***************************************************************************)
(* Two batches committed in either order (SpecOrder).                      *)
(***************************************************************************)
\* the records of the two batches: spans of either pair at the earliest and
\* at the latest instant
OrderRecords == {r \in SpanRecords : r.Timestamp \in {0, MaxTime}}

\* the tables the two batches start from: per pair no row (f[p] = 0), or a
\* row of one call at second f[p] - 1
OrderTables ==
  {{[timestamp |-> f[p] - 1, iam_role |-> p[1], privilege |-> p[2], call_count |-> 1] :
      p \in {q \in SpanPairs : f[q] > 0}} :
     f \in [SpanPairs -> 0..(Unix(MaxTime) + 1)]}

InitOrder ==
  /\ privilege_usage \in OrderTables
  /\ analysis_results = {}
  /\ tx = [r \in Reqs |-> txIdle]
  /\ ledger = ledgerEmpty
  /\ now = 0
  /\ assignments = <<>>
  /\ eng = engIdle
  /\ \E b1, b2 \in SeqsUpTo(OrderRecords, MaxBatch) \ {<<>>} :
       fn = [pc |-> "order", T0 |-> privilege_usage, B |-> <<b1, b2>>,
             applied |-> <<>>]

\* BatchRecordPrivilegeUsage(B[k]) runs to its commit
CommitBatch(k) ==
  /\ fn.pc = "order"
  /\ k \notin Range(fn.applied)
  /\ privilege_usage' = ApplyBatch(privilege_usage, fn.B[k])
  /\ fn' = [fn EXCEPT !.applied = Append(@, k)]
  /\ UNCHANGED <<analysis_results, tx, ledger, now, assignments, eng>>

NextOrder == \E k \in {1, 2} : CommitBatch(k)

SpecOrder == InitOrder /\ [][NextOrder]_vars

\* C4: whichever of two batches commits first, the table ends with the rows
\* that committing the first batch and then the second gives.
C4_OrderIrrelevant ==
  (fn.pc = "order" /\ Len(fn.applied) = 2) =>
    privilege_usage = ApplyBatch(ApplyBatch(fn.T0, fn.B[1]), fn.B[2])

\* C4 witness: the second batch was committed first, both batches and the
\* starting table have a row for the same pair, with different timestamps
C4_Witness ==
  /\ fn.pc = "order" /\ fn.applied = <<2, 1>>
  /\ \E p \in SpanPairs :
       /\ RowsOf(fn.T0, p) # {}
       /\ \E i \in 1..Len(fn.B[1]), j \in 1..Len(fn.B[2]) :
            /\ <<fn.B[1][i].IAMRole, fn.B[1][i].Privilege>> = p
            /\ <<fn.B[2][j].IAMRole, fn.B[2][j].Privilege>> = p
            /\ fn.B[1][i].Timestamp # fn.B[2][j].Timestamp


(***************************************************************************)
(* The correlation engine (SpecCorrelate): calls of setDifference and      *)
(* isPrivilegeUsed on lists of privileges, and runs of Engine.Run over a   *)
(* scrape result and a usage table.                                        *)
(***************************************************************************)
\* the observation window and the length of a day, in ticks
WindowDays == 1
DayTicks == 2
WindowTicks == WindowDays * DayTicks

\* the privileges a scraped role is assigned
AuthUniverse ==
  {STAR, p_s3_STAR, p_s3_GetObject, p_ec2_DescribeInstances, p_lambda_InvokeFunction}

\* ScrapeRole appends an action only when it has not seen it
NoDuplicates(l) == \A i, j \in 1..Len(l) : l[i] = l[j] => i = j

\* the scrape results handed to Engine.Run: role A with any assigned list,
\* alone or followed by role B
EngineAssignments ==
  LET a(l) == [RoleName |-> RoleA_Name, RoleARN |-> RoleA_ARN, Privileges |-> l]
      b == [RoleName |-> RoleB_Name, RoleARN |-> RoleB_ARN,
            Privileges |-> <<p_ec2_DescribeInstances>>]
  IN UNION {{<<a(l)>>, <<a(l), b>>} :
              l \in {m \in SeqsUpTo(AuthUniverse, MaxList) : NoDuplicates(m)}}

\* the usage rows telemetry can have left behind: role A under its ARN and
\* under its name, and a role the scrape does not know
EnginePairs ==
  { <<RoleA_ARN, p_s3_HeadObject>>, <<RoleA_ARN, p_lambda_Invoke>>,
    <<RoleA_Name, p_s3_HeadObject>>, <<RoleUnscraped, p_s3_HeadObject>> }

\* the instant the engine runs at: one window and one second after time 0
EngineNow == WindowTicks + TicksPerSec

\* per pair no row (f[p] = 0), a row before the window (1) or a row at the
\* time of the run (2)
EngineTables ==
  {{[timestamp |-> IF f[p] = 1 THEN 0 ELSE Unix(EngineNow), iam_role |-> p[1],
     privilege |-> p[2], call_count |-> 1] : p \in {q \in EnginePairs : f[q] > 0}} :
     f \in [EnginePairs -> {0, 1, 2}]}

fnArgs(A, U) ==
  [pc |-> "args", A |-> A, U |-> U, a |-> <<>>, out |-> <<>>, res |-> FALSE]

\* the privileges MapSDKToIAM is tried on: the keys of its table as they
\* are and in lower case, its values, and the privileges of the lists above
MapInputs ==
  {kv[1] : kv \in sdkToIAMAction} \cup {kv[2] : kv \in sdkToIAMAction}
    \cup {ToLower(kv[1]) : kv \in sdkToIAMAction} \cup PrivUniverse

InitCorrelate ==
  /\ analysis_results = {}
  /\ tx = [r \in Reqs |-> txIdle]
  /\ ledger = ledgerEmpty
  /\ eng = engIdle
  /\ \/ /\ privilege_usage = {}
        /\ now = 0
        /\ assignments = <<>>
        /\ \E A, U \in SeqsUpTo(PrivUniverse, MaxList) : fn = fnArgs(A, U)
     \/ /\ privilege_usage = {}
        /\ now = 0
        /\ assignments = <<>>
        /\ \E x \in MapInputs : fn = [pc |-> "mapArgs", x |-> x, out |-> <<>>, again |-> <<>>]
     \/ /\ privilege_usage \in EngineTables
        /\ now = EngineNow
        /\ assignments \in EngineAssignments
        /\ fn = fnIdle

\* unused := setDifference(A, U)
CallSetDifference ==
  /\ fn.pc = "args"
  /\ fn' = [fn EXCEPT !.pc = "setDifference", !.out = setDifference(fn.A, fn.U)]
  /\ UNCHANGED <<privilege_usage, analysis_results, tx, ledger, now, assignments, eng>>

\* isPrivilegeUsed(a, U, usedSet) for an element a of A, usedSet built from U
CallIsPrivilegeUsed ==
  /\ fn.pc = "args"
  /\ \E i \in 1..Len(fn.A) :
       fn' = [fn EXCEPT !.pc = "isPrivilegeUsed", !.a = fn.A[i],
                        !.res = isPrivilegeUsed(fn.A[i], fn.U, Range(fn.U))]
  /\ UNCHANGED <<privilege_usage, analysis_results, tx, ledger, now, assignments, eng>>

\* MapSDKToIAM(x), and MapSDKToIAM of what it returned
CallMapSDKToIAM ==
  /\ fn.pc = "mapArgs"
  /\ fn' = [fn EXCEPT !.pc = "MapSDKToIAM", !.out = MapSDKToIAM(fn.x),
                      !.again = MapSDKToIAM(MapSDKToIAM(fn.x))]
  /\ UNCHANGED <<privilege_usage, analysis_results, tx, ledger, now, assignments, eng>>

\* Engine.Run up to its first loop: since and now are taken, roleMap is
\* built, GetObservedRoles answers (fn.pc = "none": no call of a pure
\* function is being examined in this behaviour)
RunBegin ==
  /\ eng.pc = "idle" /\ fn.pc = "none"
  /\ LET since == now - WindowTicks IN
       eng' = [pc |-> "observed", since |-> since, now |-> now,
               todo |-> GetObservedRoles(privilege_usage, since), i |-> 1,
               results |-> <<>>, processedRoles |-> {}, failed |-> {}]
  /\ UNCHANGED <<privilege_usage, analysis_results, tx, ledger, now, assignments, fn>>

\* Engine.Run: GetObservedRoles fails and Run returns the error
RunQueryFail ==
  /\ eng.pc = "idle" /\ fn.pc = "none"
  /\ eng' = [eng EXCEPT !.pc = "error"]
  /\ UNCHANGED <<privilege_usage, analysis_results, tx, ledger, now, assignments, fn>>

\* first loop: the observed role is not in roleMap; warn and continue
RunSkipUnknownRole ==
  /\ eng.pc = "observed"
  /\ \E role \in eng.todo :
       /\ role \notin DOMAIN roleMap(assignments)
       /\ eng' = [eng EXCEPT !.todo = @ \ {role}]
  /\ UNCHANGED <<privilege_usage, analysis_results, tx, ledger, now, assignments, fn>>

\* first loop: correlateRole returns an error (its query failed); warn and
\* continue.  eng.failed keeps the roles this happened to (history).
RunCorrelateFail ==
  /\ eng.pc = "observed"
  /\ \E role \in eng.todo :
       /\ role \in DOMAIN roleMap(assignments)
       /\ eng' = [eng EXCEPT !.todo = @ \ {role}, !.failed = @ \cup {role}]
  /\ UNCHANGED <<privilege_usage, analysis_results, tx, ledger, now, assignments, fn>>

\* first loop: correlateRole succeeds; the result is saved (an error of the
\* save is only logged), appended, and both names of the role are marked
RunCorrelateRole ==
  /\ eng.pc = "observed"
  /\ \E role \in eng.todo :
       /\ role \in DOMAIN roleMap(assignments)
       /\ LET assignment == roleMap(assignments)[role] IN
          \E usedRaw \in Orderings(GetUsedPrivilegesForRole(privilege_usage, role, eng.since)) :
            LET result == correlateResult(assignment, role, usedRaw, eng.now)
                saved == SaveAnalysisResult(analysis_results, toAnalysisResult(result))
            IN /\ analysis_results' = saved.tbl
               /\ eng' = [eng EXCEPT !.todo = @ \ {role},
                                     !.results = Append(@, result),
                                     !.processedRoles =
                                        @ \cup {assignment.RoleARN, assignment.RoleName}]
  /\ UNCHANGED <<privilege_usage, tx, ledger, now, assignments, fn>>

\* second loop, one assignment: a role already processed is passed over, any
\* other gets the result of a role never observed
RunUnobserved ==
  /\ eng.pc = "observed" /\ eng.todo = {}
  /\ eng.i <= Len(assignments)
  /\ LET assignment == assignments[eng.i] IN
       IF assignment.RoleARN \in eng.processedRoles \/ assignment.RoleName \in eng.processedRoles
       THEN /\ eng' = [eng EXCEPT !.i = @ + 1]
            /\ UNCHANGED analysis_results
       ELSE LET result == unobservedResult(assignment, eng.now)
                saved == SaveAnalysisResult(analysis_results, toAnalysisResult(result))
            IN /\ analysis_results' = saved.tbl
               /\ eng' = [eng EXCEPT !.i = @ + 1, !.results = Append(@, result)]
  /\ UNCHANGED <<privilege_usage, tx, ledger, now, assignments, fn>>

\* Engine.Run returns its results
RunEnd ==
  /\ eng.pc = "observed" /\ eng.todo = {}
  /\ eng.i > Len(assignments)
  /\ eng' = [eng EXCEPT !.pc = "done"]
  /\ UNCHANGED <<privilege_usage, analysis_results, tx, ledger, now, assignments, fn>>

NextCorrelate ==
  \/ CallSetDifference
  \/ CallIsPrivilegeUsed
  \/ CallMapSDKToIAM
  \/ RunBegin
  \/ RunQueryFail
  \/ RunSkipUnknownRole
  \/ RunCorrelateFail
  \/ RunCorrelateRole
  \/ RunUnobserved
  \/ RunEnd

SpecCorrelate == InitCorrelate /\ [][NextCorrelate]_vars

(***************************************************************************)
(* Properties of the correlation engine (SpecCorrelate).                   *)
(***************************************************************************)
\* the service of a privilege, folded to lower case; none without a colon
HasService(u, svc) ==
  \E i \in 1..Len(u) :
    /\ u[i] = COLON /\ \A j \in 1..(i-1) : u[j] # COLON
    /\ ToLower(SubSeq(u, 1, i-1)) = ToLower(svc)

\* "svc:*" for some svc: the text after the first colon is the star
IsServiceWildcard(a) ==
  \E i \in 1..Len(a) :
    /\ a[i] = COLON /\ \A j \in 1..(i-1) : a[j] # COLON
    /\ Len(a) = i + 1 /\ a[i+1] = "*"

\* the service of "svc:*" or "svc:Action"
ServiceOf(a) ==
  LET i == CHOOSE k \in 1..Len(a) : a[k] = COLON /\ \A j \in 1..(k-1) : a[j] # COLON
  IN SubSeq(a, 1, i-1)

\* an observed privilege u is covered by an authorized privilege a
Covers(a, u) ==
  \/ a = u
  \/ a = STAR
  \/ IsServiceWildcard(a) /\ HasService(u, ServiceOf(a))

\* C5: in every result of Engine.Run, each privilege of Used is covered by
\* an assigned privilege of the role (exactly, by its svc:* or by *).
C5_UsedIsCovered ==
  \A k \in 1..Len(eng.results) :
    \A u \in Range(eng.results[k].Used) :
      \E a \in Range(eng.results[k].Assigned) : Covers(a, u)

\* C6: when only the global wildcard was observed, setDifference reports
\* nothing unused, whatever is assigned.
C6_GlobalWildcardObserved ==
  (fn.pc = "setDifference" /\ fn.U = <<STAR>>) => fn.out = <<>>

RECURSIVE IsSubSeq(_, _)
\* s is t with some elements left out
IsSubSeq(s, t) ==
  IF Len(s) = 0 THEN TRUE
  ELSE IF Len(t) = 0 THEN FALSE
  ELSE IF Head(s) = Head(t) /\ IsSubSeq(Tail(s), Tail(t)) THEN TRUE
  ELSE IsSubSeq(s, Tail(t))

\* C7: what setDifference(A, U) returns is A with some elements left out,
\* in A's order, and in every result of Engine.Run Unused is such a part of
\* Assigned.
C7_UnusedWithinAssigned ==
  /\ fn.pc = "setDifference" => IsSubSeq(fn.out, fn.A)
  /\ \A k \in 1..Len(eng.results) :
       IsSubSeq(eng.results[k].Unused, eng.results[k].Assigned)

\* C7 witness: a call that dropped the first of two different assigned
\* privileges and kept the second
C7_Witness ==
  /\ fn.pc = "setDifference" /\ Len(fn.A) = 2 /\ fn.out = <<fn.A[2]>>
  /\ fn.A[1] # fn.A[2]

C9_SelfDifferenceEmpty ==
  (fn.pc = "setDifference" /\ fn.A = fn.U) => fn.out = <<>>

\* C9 witness: the difference of a list of an action and a wildcard with itself
C9_Witness ==
  /\ fn.pc = "setDifference" /\ fn.A = fn.U
  /\ fn.A = <<p_ec2_DescribeInstances, p_s3_STAR>>

\* the rule list of the wildcard-aware difference, on the set of observed
\* privileges
RuleUsed(a, U) ==
  IF a \in U THEN TRUE
  ELSE IF a = STAR THEN U # {}
  ELSE IF IsServiceWildcard(a) THEN \E u \in U : HasService(u, ServiceOf(a))
  ELSE \/ STAR \in U
       \/ /\ \E i \in 1..Len(a) : a[i] = COLON
          /\ \E u \in U : IsServiceWildcard(u) /\ HasService(u, ServiceOf(a))

MaxSaves == 2

\* ORDER BY iam_role compares bytes: upper-case letters sort before
\* lower-case ones
RoleRank(role) ==
  CASE role = RoleA_Name -> 1
    [] role = RoleB_Name -> 2
    [] role = RoleA_ARN -> 3
    [] role = RoleB_ARN -> 4
    [] OTHER -> 5

\* SELECT ... FROM analysis_results ORDER BY iam_role, each row turned back
\* into an AnalysisResult (time.Unix(ts, 0) is on the second, in ticks): the
\* lists the query can return.  Rows of one role come in any order.
GetLatestAnalysisResults(tbl) ==
  LET toResult(x) ==
        [AnalysisDate |-> x.analysis_date * TicksPerSec, IAMRole |-> x.iam_role,
         AssignedPrivs |-> jsonUnmarshal(x.assigned_privileges),
         UsedPrivs |-> jsonUnmarshal(x.used_privileges),
         UnusedPrivs |-> jsonUnmarshal(x.unused_privileges),
         RiskLevel |-> x.risk_level]
  IN {[i \in 1..Cardinality(tbl) |-> toResult(o[i])] :
        o \in {q \in [1..Cardinality(tbl) -> tbl] :
                 /\ \A x \in tbl : \E i \in DOMAIN q : q[i] = x
                 /\ \A i, j \in DOMAIN q :
                      i < j => RoleRank(q[i].iam_role) <= RoleRank(q[j].iam_role)}}

\* the results handed to SaveAnalysisResult: what the engine builds for a
\* role from an assigned and a used list, at any analysis date
StoreResults ==
  {[AnalysisDate |-> t, IAMRole |-> role, AssignedPrivs |-> a, UsedPrivs |-> u,
    UnusedPrivs |-> setDifference(a, u),
    RiskLevel |-> ClassifySet(setDifference(a, u))] :
     t \in 0..MaxTime, role \in {RoleA_ARN, RoleB_ARN},
     a \in {<<p_s3_GetObject>>, <<p_s3_GetObject, p_ec2_DescribeInstances>>},
     u \in {<<>>, <<p_s3_GetObject>>}}

InitStore ==
  /\ privilege_usage = {}
  /\ analysis_results = {}
  /\ tx = [r \in Reqs |-> txIdle]
  /\ ledger = ledgerEmpty
  /\ now = 0
  /\ assignments = <<>>
  /\ eng = engIdle
  /\ fn = [pc |-> "store", saved |-> <<>>, errs |-> <<>>, got |-> <<>>]

\* db.SaveAnalysisResult(ctx, r); the history of calls and of their errors
\* is kept
StoreSave ==
  /\ fn.pc = "store" /\ Len(fn.saved) < MaxSaves
  /\ \E r \in StoreResults :
       LET s == SaveAnalysisResult(analysis_results, r) IN
         /\ analysis_results' = s.tbl
         /\ fn' = [fn EXCEPT !.saved = Append(@, r), !.errs = Append(@, s.err)]
  /\ UNCHANGED <<privilege_usage, tx, ledger, now, assignments, eng>>

\* db.GetLatestAnalysisResults(ctx)
StoreGetLatest ==
  /\ fn.pc = "store"
  /\ \E got \in GetLatestAnalysisResults(analysis_results) :
       fn' = [fn EXCEPT !.pc = "got", !.got = got]
  /\ UNCHANGED <<privilege_usage, analysis_results, tx, ledger, now, assignments, eng>>

NextStore == StoreSave \/ StoreGetLatest

SpecStore == InitStore /\ [][NextStore]_vars

\* C11: after any sequence of SaveAnalysisResult calls no call has failed,
\* and for every role saved analysis_results holds exactly one row, which
\* carries the fields of the most recent save for that role.
C11_SaveOverwrites ==
  fn.pc \in {"store", "got"} =>
    \A i \in 1..Len(fn.saved) :
      /\ ~fn.errs[i]
      /\ LET role == fn.saved[i].IAMRole
             last == CHOOSE k \in 1..Len(fn.saved) :
                       /\ fn.saved[k].IAMRole = role
                       /\ \A m \in (k+1)..Len(fn.saved) : fn.saved[m].IAMRole # role
             r == fn.saved[last]
             rows == {x \in analysis_results : x.iam_role = role}
         IN /\ Cardinality(rows) = 1
            /\ \A x \in rows :
                 /\ x.analysis_date = Unix(r.AnalysisDate)
                 /\ jsonUnmarshal(x.assigned_privileges) = r.AssignedPrivs
                 /\ jsonUnmarshal(x.used_privileges) = r.UsedPrivs
                 /\ jsonUnmarshal(x.unused_privileges) = r.UnusedPrivs
                 /\ x.risk_level = r.RiskLevel

\* C13: SaveAnalysisResult(r) followed by GetLatestAnalysisResults returns,
\* for r's role, a result whose assigned, used and unused lists equal r's
\* element for element and in order, and whose risk level equals r's.
C13_SaveGetRoundTrip ==
  (fn.pc = "got" /\ Len(fn.saved) > 0) =>
    LET r == fn.saved[Len(fn.saved)] IN
      \E i \in 1..Len(fn.got) :
        /\ fn.got[i].IAMRole = r.IAMRole
        /\ fn.got[i].AssignedPrivs = r.AssignedPrivs
        /\ fn.got[i].UsedPrivs = r.UsedPrivs
        /\ fn.got[i].UnusedPrivs = r.UnusedPrivs
        /\ fn.got[i].RiskLevel = r.RiskLevel

(***************************************************************************)
(* Properties of Engine.Run over identities (SpecCorrelate).               *)
(***************************************************************************)
\* the two names of a scraped identity, and the names of all of them
Names(a) == {a.RoleARN, a.RoleName}
ScrapedNames == UNION {Names(assignments[i]) : i \in 1..Len(assignments)}

\* the results of a run, and the rows of analysis_results, that belong to
\* the identity a
ResultsOf(a) == {k \in 1..Len(eng.results) : eng.results[k].IAMRole \in Names(a)}
SavedRowsOf(a) == {x \in analysis_results : x.iam_role \in Names(a)}

\* the names of a under which the window holds a usage row
ObservedNames(a) == Names(a) \cap GetObservedRoles(privilege_usage, eng.since)

\* C12: whether telemetry carries an identity's ARN, its short name, both
\* or neither, the identity has at most one result in a run's result set
\* and at most one row in analysis_results.
C12_OneResultPerIdentity ==
  \A i \in 1..Len(assignments) :
    /\ Cardinality(ResultsOf(assignments[i])) <= 1
    /\ Cardinality(SavedRowsOf(assignments[i])) <= 1

\* C14: when Engine.Run has returned, every scraped identity with no usage
\* row in the window under either name has exactly one result, with used
\* empty, unused its authorized list and risk ClassifySet of that list, and
\* exactly one row of analysis_results, which carries that result.
C14_UnobservedPersisted ==
  eng.pc = "done" =>
    \A i \in 1..Len(assignments) :
      LET a == assignments[i] IN
        ObservedNames(a) = {} =>
          /\ Cardinality(ResultsOf(a)) = 1
          /\ \A k \in ResultsOf(a) :
               /\ eng.results[k].Used = <<>>
               /\ eng.results[k].Unused = a.Privileges
               /\ eng.results[k].RiskLevel = ClassifySet(a.Privileges)
          /\ Cardinality(SavedRowsOf(a)) = 1
          /\ \A x \in SavedRowsOf(a) :
               /\ jsonUnmarshal(x.used_privileges) = <<>>
               /\ jsonUnmarshal(x.unused_privileges) = a.Privileges
               /\ x.risk_level = ClassifySet(a.Privileges)

\* C15: a role of the usage table that is neither the ARN nor the short name
\* of a scraped identity gets no result and no row, and every result is the
\* one the run yields from the usage table without the rows of such roles.
C15_UnknownRoleSkipped ==
  LET known == {x \in privilege_usage : x.iam_role \in ScrapedNames} IN
    /\ \A k \in 1..Len(eng.results) : eng.results[k].IAMRole \in ScrapedNames
    /\ \A x \in analysis_results : x.iam_role \in ScrapedNames
    /\ \A k \in 1..Len(eng.results) :
         \E i \in 1..Len(assignments) :
           LET a == assignments[i]
               r == eng.results[k]
           IN \/ r = unobservedResult(a, eng.now)
              \/ /\ r.IAMRole \in Names(a)
                 /\ \E usedRaw \in Orderings(GetUsedPrivilegesForRole(known, r.IAMRole, eng.since)) :
                      r = correlateResult(a, r.IAMRole, usedRaw, eng.now)

C15_Witness ==
  /\ eng.pc = "done"
  /\ RoleUnscraped \in GetObservedRoles(privilege_usage, eng.since)
  /\ \E k \in 1..Len(eng.results) : eng.results[k].Used # <<>>

C17_FailedRoleSkipped ==
  eng.pc = "done" =>
    \A i \in 1..Len(assignments) :
      LET a == assignments[i] IN
        (ObservedNames(a) # {} /\ ObservedNames(a) \subseteq eng.failed) =>
          /\ ResultsOf(a) = {}
          /\ SavedRowsOf(a) = {}

(***************************************************************************)
(* One analysis cycle (SpecCycle): runAnalyze scrapes, runs the engine     *)
(* and purges.  fn carries the position of the cycle (fn.stage), the       *)
(* tables as the cycle found them and whether the role listing failed.     *)
(***************************************************************************)
\* purge keeps the window and one more week
PurgeBufferDays == 7

\* the instant the cycle runs at: late enough for a row of time 0 to be
\* older than the purge cutoff
CycleNow == (WindowDays + PurgeBufferDays) * DayTicks + TicksPerSec

\* a scrape that carries on after a failed listing, with no roles
ScrapeAll_IgnoreListError(listErr, scraped) ==
  [err |-> FALSE, assignments |-> IF listErr THEN <<>> ELSE scraped]

\* ScrapeAll: the listing error is returned; otherwise the assignments of
\* the roles whose ScrapeRole succeeded, in the order they arrived
ScrapeAll(listErr, scraped) ==
  IF listErr
  THEN [err |-> TRUE, assignments |-> <<>>]
  ELSE [err |-> FALSE, assignments |-> scraped]

\* what the role scrapes can send on resultCh: any of the two roles, in any
\* order
CycleScraped ==
  LET a == [RoleName |-> RoleA_Name, RoleARN |-> RoleA_ARN,
            Privileges |-> <<p_s3_GetObject, p_ec2_DescribeInstances>>]
      b == [RoleName |-> RoleB_Name, RoleARN |-> RoleB_ARN,
            Privileges |-> <<p_s3_STAR>>]
  IN {<<>>, <<a>>, <<b>>, <<a, b>>, <<b, a>>}

\* the usage rows the cycle finds: per pair no row (0), a row older than
\* the purge cutoff (1), a row at the time of the cycle (2) or a row of the
\* second the observation window starts in (3)
CyclePairs ==
  { <<RoleA_ARN, p_s3_HeadObject>>, <<RoleB_Name, p_s3_GetObject>>,
    <<RoleUnscraped, p_s3_HeadObject>> }

CycleTables ==
  {{[timestamp |-> CASE f[p] = 1 -> 0
                      [] f[p] = 2 -> Unix(CycleNow)
                      [] OTHER -> Unix(CycleNow - WindowTicks),
     iam_role |-> p[1],
     privilege |-> p[2], call_count |-> 1] : p \in {q \in CyclePairs : f[q] > 0}} :
     f \in [CyclePairs -> {0, 1, 2, 3}]}

InitCycle ==
  /\ privilege_usage \in CycleTables
  /\ analysis_results = {}
  /\ tx = [r \in Reqs |-> txIdle]
  /\ ledger = ledgerEmpty
  /\ now = CycleNow
  /\ assignments = <<>>
  /\ eng = engIdle
  /\ fn = [pc |-> "none", stage |-> "start", listErr |-> FALSE, err |-> FALSE,
           usage0 |-> privilege_usage, results0 |-> analysis_results]

\* runAnalyze: LoadDefaultConfig fails
CycleConfigFail ==
  /\ fn.pc = "none" /\ fn.stage = "start"
  /\ fn' = [fn EXCEPT !.stage = "failed", !.err = TRUE]
  /\ UNCHANGED <<privilege_usage, analysis_results, tx, ledger, now, assignments, eng>>

\* runAnalyze: sc.ScrapeAll(ctx) and the test of its error
CycleScrape ==
  /\ fn.pc = "none" /\ fn.stage = "start"
  /\ \E listErr \in BOOLEAN, scraped \in CycleScraped :
       LET s == ScrapeAll(listErr, scraped) IN
         IF s.err
         THEN /\ fn' = [fn EXCEPT !.stage = "failed", !.err = TRUE, !.listErr = listErr]
              /\ UNCHANGED assignments
         ELSE /\ fn' = [fn EXCEPT !.stage = "scraped", !.listErr = listErr]
              /\ assignments' = s.assignments
  /\ UNCHANGED <<privilege_usage, analysis_results, tx, ledger, now, eng>>

\* runAnalyze: engine.Run(ctx, assignments), step by step
CycleRun ==
  /\ fn.pc = "none" /\ fn.stage = "scraped"
  /\ \/ RunBegin
     \/ RunQueryFail
     \/ RunSkipUnknownRole
     \/ RunCorrelateFail
     \/ RunCorrelateRole
     \/ RunUnobserved
     \/ RunEnd

\* runAnalyze: engine.Run returned an error
CycleRunError ==
  /\ fn.pc = "none" /\ fn.stage = "scraped" /\ eng.pc = "error"
  /\ fn' = [fn EXCEPT !.stage = "failed", !.err = TRUE]
  /\ UNCHANGED <<privilege_usage, analysis_results, tx, ledger, now, assignments, eng>>

\* the ticks the clock may advance while a cycle runs
MaxElapsed == 1

\* time passes between the steps of a cycle: Engine.Run and the purge each
\* read time.Now() when they start
CycleClock ==
  /\ fn.pc = "none" /\ fn.stage \in {"start", "scraped"}
  /\ now < CycleNow + MaxElapsed
  /\ now' = now + 1
  /\ UNCHANGED <<privilege_usage, analysis_results, tx, ledger, assignments, eng, fn>>

\* a cutoff without the window and the buffer
purgeCutoff_Now(n) == n

\* cutoff := time.Now().AddDate(0, 0, -(cfg.Observation.WindowDays + 7))
purgeCutoff(n) == n - (WindowDays + PurgeBufferDays) * DayTicks

\* runAnalyze: PurgeOldRecords with the cutoff of window + 7 days (a failure
\* of the purge is logged and deletes nothing), then the summary
CyclePurge ==
  /\ fn.pc = "none" /\ fn.stage = "scraped" /\ eng.pc = "done"
  /\ LET cutoff == purgeCutoff(now) IN
       \E purgeErr \in BOOLEAN :
         privilege_usage' = IF purgeErr THEN privilege_usage
                            ELSE PurgeOldRecords(privilege_usage, cutoff)
  /\ fn' = [fn EXCEPT !.stage = "done"]
  /\ UNCHANGED <<analysis_results, tx, ledger, now, assignments, eng>>

NextCycle ==
  \/ CycleConfigFail
  \/ CycleScrape
  \/ CycleRun
  \/ CycleRunError
  \/ CyclePurge
  \/ CycleClock

SpecCycle == InitCycle /\ [][NextCycle]_vars

\* C18: if the role listing fails, ScrapeAll returns an error and the cycle
\* ends there with that error: the engine never runs, analysis_results is as
\* the cycle found it, and no usage record is purged.
C18_ListingFailureAborts ==
  fn.listErr =>
    /\ fn.stage = "failed" /\ fn.err
    /\ eng = engIdle
    /\ analysis_results = fn.results0
    /\ privilege_usage = fn.usage0

\* the listing failed in a cycle that had a record to purge and a role of
\* the usage table to correlate
C18_Witness ==
  /\ fn.listErr /\ fn.stage = "failed"
  /\ \E x \in privilege_usage : x.timestamp = 0
  /\ \E x \in privilege_usage : x.timestamp = Unix(CycleNow)

(***************************************************************************)
(* The policy document parser (SpecPolicy): parsePolicyDocument on         *)
(* documents of Allow and Deny statements.                                 *)
(***************************************************************************)
\* the number of statements of a document
MaxStatements == 2

e_Allow == <<"A", "l", "l", "o", "w">>
e_Deny == <<"D", "e", "n", "y">>
e_deny == <<"d", "e", "n", "y">>

\* a normalizeAction that lowers the whole string
normalizeAction_LowerAll(action) == ToLower(action)

\* normalizeAction: the service prefix in lower case, the action as it is; a
\* string without a colon entirely in lower case
normalizeAction(action) ==
  LET parts == SplitN(action) IN
    IF Len(parts) = 2
    THEN ToLower(parts[1]) \o <<COLON>> \o parts[2]
    ELSE ToLower(action)

\* a deny test that knows only the exact match
isDenied_ExactOnly(action, denied) == action \in denied

\* a deny test that also drops svc:* and * when a specific action is denied
isDenied_SplitWildcard(action, denied) ==
  \/ STAR \in denied
  \/ action \in denied
  \/ IndexColon(action) # 0 /\ SubSeq(action, 1, IndexColon(action)) \o STAR \in denied
  \/ action = STAR /\ denied # {}
  \/ /\ IndexColon(action) # 0 /\ IsServiceWildcard(action)
     /\ \E x \in denied : HasPrefix(x, SubSeq(action, 1, IndexColon(action)))

\* isDenied: "*" is denied, the action itself is denied, or the wildcard of
\* its service is denied
isDenied(action, denied) ==
  IF STAR \in denied THEN TRUE
  ELSE IF action \in denied THEN TRUE
  ELSE LET idx == IndexColon(action) IN
         IF idx # 0
         THEN SubSeq(action, 1, idx) \o STAR \in denied
         ELSE FALSE

\* the actions of the statements with the given effect (strings.EqualFold),
\* in document order
RECURSIVE actionsWithEffect(_, _, _)
actionsWithEffect(doc, effect, i) ==
  IF i > Len(doc) THEN <<>>
  ELSE (IF EqualFold(doc[i].Effect, effect) THEN doc[i].Action ELSE <<>>)
       \o actionsWithEffect(doc, effect, i + 1)

\* the second pass from the i-th allowed action on
RECURSIVE allowLoop(_, _, _, _, _)
allowLoop(allowed, denied, i, seen, actions) ==
  IF i > Len(allowed) THEN actions
  ELSE LET norm == normalizeAction(allowed[i])
           key == ToLower(norm)
       IN IF isDenied(norm, denied)
          THEN allowLoop(allowed, denied, i + 1, seen, actions)
          ELSE IF key \in seen
               THEN allowLoop(allowed, denied, i + 1, seen, actions)
               ELSE allowLoop(allowed, denied, i + 1, seen \cup {key},
                              Append(actions, norm))

\* parsePolicyDocument, given whether the text decodes (URL unescape and
\* JSON) and the statements it decodes to
parsePolicyDocument(decodeErr, doc) ==
  IF decodeErr THEN [err |-> TRUE, actions |-> <<>>]
  ELSE LET denied == {normalizeAction(a) : a \in Range(actionsWithEffect(doc, e_Deny, 1))}
       IN [err |-> FALSE,
           actions |-> allowLoop(actionsWithEffect(doc, e_Allow, 1), denied, 1, {}, <<>>)]

\* the Action values of a statement: a single string (a list of one) or an
\* array
PolicyActionLists ==
  {<<a>> : a \in {STAR, p_s3_STAR, p_S3_STAR, p_s3_GetObject, p_s3_getobject,
                  <<"S", "3", ":", "G", "e", "t", "O", "b", "j", "e", "c", "t">>,
                  p_ec2_DescribeInstances}}
    \cup {<<p_s3_STAR, p_ec2_DescribeInstances>>, <<p_s3_GetObject, p_s3_STAR>>,
          <<STAR, p_s3_GetObject>>}

PolicyStatements ==
  {[Effect |-> e, Action |-> l] : e \in {e_Allow, e_Deny, e_deny}, l \in PolicyActionLists}

PolicyDocuments == SeqsUpTo(PolicyStatements, MaxStatements)

InitPolicy ==
  /\ privilege_usage = {}
  /\ analysis_results = {}
  /\ tx = [r \in Reqs |-> txIdle]
  /\ ledger = ledgerEmpty
  /\ now = 0
  /\ assignments = <<>>
  /\ eng = engIdle
  /\ \E doc \in PolicyDocuments :
       fn = [pc |-> "policyArgs", doc |-> doc, err |-> FALSE, actions |-> <<>>]

\* actions, err := parsePolicyDocument(encoded)
CallParsePolicyDocument ==
  /\ fn.pc = "policyArgs"
  /\ \E decodeErr \in BOOLEAN :
       LET res == parsePolicyDocument(decodeErr, fn.doc) IN
         fn' = [fn EXCEPT !.pc = "parsePolicyDocument", !.err = res.err,
                          !.actions = res.actions]
  /\ UNCHANGED <<privilege_usage, analysis_results, tx, ledger, now, assignments, eng>>

NextPolicy == CallParsePolicyDocument

SpecPolicy == InitPolicy /\ [][NextPolicy]_vars

\* the normalized actions of the document's Deny and Allow statements
DenySet(doc) ==
  {normalizeAction(a) :
     a \in UNION {Range(doc[i].Action) :
                   i \in {k \in 1..Len(doc) : EqualFold(doc[k].Effect, e_Deny)}}}
AllowSet(doc) ==
  {normalizeAction(a) :
     a \in UNION {Range(doc[i].Action) :
                   i \in {k \in 1..Len(doc) : EqualFold(doc[k].Effect, e_Allow)}}}

IsWildcard(a) == a = STAR \/ IsServiceWildcard(a)

\* C19: whatever the order of the statements, parsePolicyDocument returns no
\* action a for which "*", a itself or the wildcard of a's service is in the
\* document's (normalized) deny-set.
C19_NoDeniedActionReturned ==
  fn.pc = "parsePolicyDocument" =>
    \A k \in 1..Len(fn.actions) :
      LET a == fn.actions[k] IN
        /\ STAR \notin DenySet(fn.doc)
        /\ a \notin DenySet(fn.doc)
        /\ IndexColon(a) # 0 =>
             SubSeq(a, 1, IndexColon(a)) \o STAR \notin DenySet(fn.doc)

\* Allow {s3:GetObject, s3:*} followed by Deny s3:*: the later statement
\* removes both
C19_Witness ==
  /\ fn.pc = "parsePolicyDocument" /\ ~fn.err
  /\ Len(fn.doc) = 2
  /\ EqualFold(fn.doc[1].Effect, e_Allow) /\ EqualFold(fn.doc[2].Effect, e_Deny)
  /\ fn.doc[1].Action = <<p_s3_GetObject, p_s3_STAR>>
  /\ fn.doc[2].Action = <<p_s3_STAR>>
  /\ fn.actions = <<>>

\* C20: when the document denies only specific actions, every wildcard it
\* allows (svc:* or *) is in the output as written, apart from the case
\* of its service prefix, and the output holds nothing but (normalized)
\* actions of the Allow statements: no wildcard is expanded.
C20_WildcardNotSplit ==
  (fn.pc = "parsePolicyDocument" /\ ~fn.err) =>
    /\ (\A d \in DenySet(fn.doc) : ~IsWildcard(d)) =>
         \A w \in AllowSet(fn.doc) : IsWildcard(w) => w \in Range(fn.actions)
    /\ Range(fn.actions) \subseteq AllowSet(fn.doc)

\* Allow {s3:*, ec2:DescribeInstances} with Deny s3:GetObject
C20_Witness ==
  /\ fn.pc = "parsePolicyDocument" /\ ~fn.err
  /\ Len(fn.doc) = 2
  /\ fn.doc[1] = [Effect |-> e_Allow, Action |-> <<p_s3_STAR, p_ec2_DescribeInstances>>]
  /\ fn.doc[2] = [Effect |-> e_Deny, Action |-> <<p_s3_GetObject>>]
  /\ fn.actions = <<p_s3_STAR, p_ec2_DescribeInstances>>

\* the actions the Allow statements of a document are written with
AllowWritten(doc) ==
  UNION {Range(doc[i].Action) :
           i \in {k \in 1..Len(doc) : EqualFold(doc[k].Effect, e_Allow)}}

\* e is a with the text before its first colon in lower case and the rest
\* as written; a bare * stays *
ServiceLowered(a, e) ==
  LET c == IF \E i \in 1..Len(a) : a[i] = ":"
           THEN CHOOSE i \in 1..Len(a) : a[i] = ":" /\ \A j \in 1..(i-1) : a[j] # ":"
           ELSE 0
  IN /\ Len(e) = Len(a)
     /\ \A i \in 1..Len(a) :
          e[i] = IF i < c /\ a[i] \in DOMAIN UpperToLower THEN UpperToLower[a[i]] ELSE a[i]

\* C35: every element of the list parsePolicyDocument returns is an action
\* of an Allow statement with its service part (before the first colon) in
\* lower case and its action as written, a bare * being kept as *;
\* normalizing a normalized action changes nothing; no two elements are
\* equal ignoring case.
C35_NormalizedAndDeduplicated ==
  (fn.pc = "parsePolicyDocument" /\ ~fn.err) =>
    /\ \A k \in 1..Len(fn.actions) :
         /\ \E a \in AllowWritten(fn.doc) : ServiceLowered(a, fn.actions[k])
         /\ normalizeAction(fn.actions[k]) = fn.actions[k]
    /\ \A i \in 1..Len(fn.doc) : \A a \in Range(fn.doc[i].Action) :
         normalizeAction(normalizeAction(a)) = normalizeAction(a)
    /\ STAR \in AllowWritten(fn.doc) /\ DenySet(fn.doc) = {} => STAR \in Range(fn.actions)
    /\ \A i, j \in 1..Len(fn.actions) :
         EqualFold(fn.actions[i], fn.actions[j]) => i = j

\* Allow S3:GetObject, then Allow s3:getobject: one element, s3:GetObject
C35_Witness ==
  /\ fn.pc = "parsePolicyDocument" /\ ~fn.err
  /\ Len(fn.doc) = 2
  /\ fn.doc[1] = [Effect |-> e_Allow,
                  Action |-> << <<"S", "3", ":", "G", "e", "t", "O", "b", "j", "e", "c", "t">> >>]
  /\ fn.doc[2] = [Effect |-> e_Allow, Action |-> <<p_s3_getobject>>]
  /\ fn.actions = <<p_s3_GetObject>>

(***************************************************************************)
(* The scraper (SpecScrape): ScrapeRole over the policies of one role, and *)
(* ScrapeAll over the listed roles with its worker goroutines.             *)
(***************************************************************************)
\* the number of attached, and of inline, policies of a role
MaxPolicies == 2

\* what fetching and parsing one policy can give: an error (the fetch or
\* the parse failed) or the parser's output for a document
PolicyResults ==
  {parsePolicyDocument(e, doc) :
     e \in BOOLEAN,
     doc \in {<<>>,
              <<[Effect |-> e_Allow, Action |-> <<p_s3_GetObject>>]>>,
              <<[Effect |-> e_Allow, Action |-> <<p_s3_getobject>>]>>,
              <<[Effect |-> e_Allow, Action |-> <<p_s3_STAR, p_ec2_DescribeInstances>>]>>}}

\* the loop over one policy's actions: an action is appended unless seen
\* holds that very string.  Result: [seen, privileges].
RECURSIVE appendUnseen(_, _, _, _)
appendUnseen(actions, i, seen, privileges) ==
  IF i > Len(actions) THEN [seen |-> seen, privileges |-> privileges]
  ELSE IF actions[i] \in seen
       THEN appendUnseen(actions, i + 1, seen, privileges)
       ELSE appendUnseen(actions, i + 1, seen \cup {actions[i]},
                         Append(privileges, actions[i]))

\* a loop that drops an action which any policy of the list denies
RECURSIVE collectPolicies_DenyAcross(_, _, _, _)
collectPolicies_DenyAcross(policies, i, seen, privileges) ==
  IF i > Len(policies) THEN [seen |-> seen, privileges |-> privileges]
  ELSE IF policies[i].err
       THEN collectPolicies_DenyAcross(policies, i + 1, seen, privileges)
       ELSE LET denied == UNION {DenySet(policies[j].doc) : j \in 1..Len(policies)}
                kept == SelectSeq(policies[i].actions, LAMBDA x : ~isDenied(x, denied))
                r == appendUnseen(kept, 1, seen, privileges)
            IN collectPolicies_DenyAcross(policies, i + 1, r.seen, r.privileges)

\* the loop over a list of policies: a policy whose fetch or parse failed is
\* skipped
RECURSIVE collectPolicies(_, _, _, _)
collectPolicies(policies, i, seen, privileges) ==
  IF i > Len(policies) THEN [seen |-> seen, privileges |-> privileges]
  ELSE IF policies[i].err
       THEN collectPolicies(policies, i + 1, seen, privileges)
       ELSE LET r == appendUnseen(policies[i].actions, 1, seen, privileges)
            IN collectPolicies(policies, i + 1, r.seen, r.privileges)

\* ScrapeRole: an error when the attached policies cannot be listed; else
\* the actions of the attached policies, then (unless their listing fails)
\* those of the inline policies, through the same seen map
ScrapeRole(role, attachedErr, attached, inlineErr, inline) ==
  IF attachedErr
  THEN [err |-> TRUE,
        ra |-> [RoleName |-> role.RoleName, RoleARN |-> role.Arn, Privileges |-> <<>>]]
  ELSE LET a == collectPolicies(attached, 1, {}, <<>>)
           b == IF inlineErr THEN a
                ELSE collectPolicies(inline, 1, a.seen, a.privileges)
       IN [err |-> FALSE,
           ra |-> [RoleName |-> role.RoleName, RoleARN |-> role.Arn,
                   Privileges |-> b.privileges]]

\* the number of roles the listing returns
MaxRoles == 7

\* maxConcurrentRoleScrapes: the capacity of the semaphore channel
maxConcurrentRoleScrapes == 5

serviceRolePath ==
  <<"/", "a", "w", "s", "-", "s", "e", "r", "v", "i", "c", "e", "-", "r", "o", "l", "e", "/">>

\* the i-th role of the listing; the first one is service-linked
ListedRole(i) ==
  [RoleName |-> <<"role", i>>, Arn |-> <<"arn:aws:iam::123:role", i>>,
   Path |-> IF i = 1 THEN serviceRolePath \o <<"x", "/">> ELSE <<"/">>]

\* the filter of ScrapeAll: the indexes of the roles that are not
\* service-linked
customerManaged(n) == {i \in 1..n : ~HasPrefix(ListedRole(i).Path, serviceRolePath)}

\* the one attached policy every listed role has
ListedRolePolicy == [err |-> FALSE, actions |-> <<p_s3_GetObject>>]

\* a semaphore that never blocks
semAcquire_Unbounded(held) == TRUE

\* sem <- struct{}{} goes through when fewer than its capacity are held
semAcquire(held) == held < maxConcurrentRoleScrapes

\* a receive loop that gives up at the first failed role
RECURSIVE collectResults_StopAtError(_, _)
collectResults_StopAtError(sent, i) ==
  IF i > Len(sent) \/ sent[i].err THEN <<>>
  ELSE <<sent[i].ra>> \o collectResults_StopAtError(sent, i + 1)

\* for res := range resultCh: a failed role is skipped, any other appended
RECURSIVE collectResults(_, _)
collectResults(sent, i) ==
  IF i > Len(sent) THEN <<>>
  ELSE (IF sent[i].err THEN <<>> ELSE <<sent[i].ra>>) \o collectResults(sent, i + 1)

InitScrape ==
  /\ privilege_usage = {}
  /\ analysis_results = {}
  /\ tx = [r \in Reqs |-> txIdle]
  /\ ledger = ledgerEmpty
  /\ now = 0
  /\ assignments = <<>>
  /\ eng = engIdle
  /\ \/ \E attached, inline \in SeqsUpTo(PolicyResults, MaxPolicies) :
          fn = [pc |-> "scrapeRoleArgs", attached |-> attached, inline |-> inline,
                err |-> FALSE, ra |-> <<>>]
     \/ \E n \in 0..MaxRoles, failing \in SUBSET {2, 3} :
          fn = [pc |-> "scrapeAllArgs", n |-> n, failing |-> failing, g |-> <<>>,
                sent |-> <<>>, listErr |-> FALSE, err |-> FALSE, out |-> <<>>]

\* ra, err := s.ScrapeRole(ctx, role): either listing may fail
CallScrapeRole ==
  /\ fn.pc = "scrapeRoleArgs"
  /\ \E attachedErr, inlineErr \in BOOLEAN :
       LET res == ScrapeRole(ListedRole(2), attachedErr, fn.attached, inlineErr, fn.inline)
       IN fn' = [fn EXCEPT !.pc = "ScrapeRole", !.err = res.err, !.ra = res.ra]
  /\ UNCHANGED <<privilege_usage, analysis_results, tx, ledger, now, assignments, eng>>

\* ScrapeAll: listAllRoles fails and the error is returned
ScrapeAllListFail ==
  /\ fn.pc = "scrapeAllArgs"
  /\ LET res == ScrapeAll(TRUE, <<>>) IN
       fn' = [fn EXCEPT !.pc = "returned", !.listErr = TRUE, !.err = res.err,
                        !.out = res.assignments]
  /\ UNCHANGED <<privilege_usage, analysis_results, tx, ledger, now, assignments, eng>>

\* ScrapeAll: the listing succeeds, service-linked roles are filtered out and
\* one goroutine per remaining role is started
ScrapeAllSpawn ==
  /\ fn.pc = "scrapeAllArgs"
  /\ fn' = [fn EXCEPT !.pc = "workers",
                      !.g = [i \in customerManaged(fn.n) |-> "wait"]]
  /\ UNCHANGED <<privilege_usage, analysis_results, tx, ledger, now, assignments, eng>>

\* a worker acquires the semaphore and enters ScrapeRole
WorkerAcquire ==
  /\ fn.pc = "workers"
  /\ \E i \in DOMAIN fn.g :
       /\ fn.g[i] = "wait"
       /\ semAcquire(Cardinality({j \in DOMAIN fn.g : fn.g[j] = "run"}))
       /\ fn' = [fn EXCEPT !.g[i] = "run"]
  /\ UNCHANGED <<privilege_usage, analysis_results, tx, ledger, now, assignments, eng>>

\* a worker's ScrapeRole returns; it sends the result on resultCh (whose
\* buffer has room for every role), releases the semaphore and is done
WorkerFinish ==
  /\ fn.pc = "workers"
  /\ \E i \in DOMAIN fn.g :
       /\ fn.g[i] = "run"
       /\ LET res == ScrapeRole(ListedRole(i), i \in fn.failing, <<ListedRolePolicy>>,
                                FALSE, <<>>)
          IN fn' = [fn EXCEPT !.g[i] = "done", !.sent = Append(@, res)]
  /\ UNCHANGED <<privilege_usage, analysis_results, tx, ledger, now, assignments, eng>>

\* every worker is done, resultCh is closed; the receive loop has taken the
\* results in the order they were sent and ScrapeAll returns
ScrapeAllReturn ==
  /\ fn.pc = "workers"
  /\ \A i \in DOMAIN fn.g : fn.g[i] = "done"
  /\ LET res == ScrapeAll(FALSE, collectResults(fn.sent, 1)) IN
       fn' = [fn EXCEPT !.pc = "returned", !.err = res.err, !.out = res.assignments]
  /\ UNCHANGED <<privilege_usage, analysis_results, tx, ledger, now, assignments, eng>>

NextScrape ==
  \/ CallScrapeRole
  \/ ScrapeAllListFail
  \/ ScrapeAllSpawn
  \/ WorkerAcquire
  \/ WorkerFinish
  \/ ScrapeAllReturn

SpecScrape == InitScrape /\ [][NextScrape]_vars

\* C21: no two privileges of the RoleAssignment that ScrapeRole returns are
\* equal ignoring case, whichever policies contributed them.
C21_NoCaseDuplicates ==
  (fn.pc = "ScrapeRole" /\ ~fn.err) =>
    \A i, j \in 1..Len(fn.ra.Privileges) :
      EqualFold(fn.ra.Privileges[i], fn.ra.Privileges[j]) => i = j

\* C24: at most maxConcurrentRoleScrapes (5) ScrapeRole calls are in
\* progress at any time.
C24_BoundedConcurrency ==
  fn.pc = "workers" =>
    Cardinality({i \in DOMAIN fn.g : fn.g[i] = "run"}) <= 5

\* five calls are in progress while a sixth worker waits
C24_Witness ==
  /\ fn.pc = "workers"
  /\ Cardinality({i \in DOMAIN fn.g : fn.g[i] = "run"}) = 5
  /\ \E i \in DOMAIN fn.g : fn.g[i] = "wait"

\* C25: when the listing succeeds ScrapeAll returns no error, and its result
\* holds exactly one RoleAssignment for each listed role that is not
\* service-linked and whose ScrapeRole succeeded, the one ScrapeRole gives
\* for that role whatever happened to the others, and none for any other.
C25_SuccessfulSubset ==
  (fn.pc = "returned" /\ ~fn.listErr) =>
    /\ ~fn.err
    /\ \A i \in 1..fn.n :
         LET mine == {k \in 1..Len(fn.out) : fn.out[k].RoleARN = ListedRole(i).Arn} IN
           IF i # 1 /\ i \notin fn.failing
           THEN /\ Cardinality(mine) = 1
                /\ \A k \in mine :
                     fn.out[k] = [RoleName |-> ListedRole(i).RoleName,
                                  RoleARN |-> ListedRole(i).Arn,
                                  Privileges |-> <<p_s3_GetObject>>]
           ELSE mine = {}
    /\ \A k \in 1..Len(fn.out) : \E i \in 1..fn.n : fn.out[k].RoleARN = ListedRole(i).Arn

\* a service-linked role, a failed role sent before a successful one
C25_Witness ==
  /\ fn.pc = "returned" /\ ~fn.listErr
  /\ fn.n >= 4 /\ fn.failing = {2}
  /\ fn.sent[1].err /\ Len(fn.out) = fn.n - 2

(***************************************************************************)
(* The daemon (SpecDaemon): the loop of daemonCmd, the analysis goroutines *)
(* it launches and the receiver goroutine.  fn holds the daemon's state:   *)
(* main is the position of the command, runs the state of each analysis    *)
(* goroutine, wg the wait-group counter, trig the history of triggers.     *)
(***************************************************************************)
\* the number of launchAnalysis calls (the initial one and the ticks)
MaxLaunches == 3

\* a launch that never looks at analyzeRunning
mayLaunch_Always(skipIfRunning, analyzeRunning) == TRUE

\* launchAnalysis: with skip-if-running the trigger is dropped while
\* analyzeRunning is set
mayLaunch(skipIfRunning, analyzeRunning) == ~(skipIfRunning /\ analyzeRunning)

\* a goroutine that leaves analyzeRunning as it is
clearRunning_Keep(skipIfRunning, analyzeRunning) == analyzeRunning

\* the deferred function of the analysis goroutine (only registered with
\* skip-if-running): analyzeRunning = false
clearRunning(skipIfRunning, analyzeRunning) ==
  IF skipIfRunning THEN FALSE ELSE analyzeRunning

\* a wait that returns at once
wgWait_NoWait(wg) == TRUE

\* wg.Wait() returns when the counter is zero
wgWait(wg) == wg = 0

InitDaemon ==
  /\ privilege_usage = {}
  /\ analysis_results = {}
  /\ tx = [r \in Reqs |-> txIdle]
  /\ ledger = ledgerEmpty
  /\ now = 0
  /\ assignments = <<>>
  /\ eng = engIdle
  /\ \E skipIfRunning \in BOOLEAN :
       fn = [pc |-> "daemon", skipIfRunning |-> skipIfRunning, main |-> "start",
             signalled |-> FALSE, analyzeRunning |-> FALSE, runs |-> <<>>,
             recv |-> "none", wg |-> 0, trig |-> <<>>]

\* the parts of fn' every daemon action leaves alone
DaemonFrame ==
  UNCHANGED <<privilege_usage, analysis_results, tx, ledger, now, assignments, eng>>

\* launchAnalysis(): under analyzeMu the flag is tested and set; then
\* wg.Add(1) and the goroutine starts.  trig records whether an analysis was
\* executing when the trigger came and whether it started one.
launchAnalysis(f) ==
  LET busy == \E k \in 1..Len(f.runs) : f.runs[k] = "running" IN
    IF mayLaunch(f.skipIfRunning, f.analyzeRunning)
    THEN [f EXCEPT !.analyzeRunning = IF f.skipIfRunning THEN TRUE ELSE @,
                   !.wg = @ + 1,
                   !.runs = Append(@, "running"),
                   !.trig = Append(@, [busy |-> busy, started |-> TRUE])]
    ELSE [f EXCEPT !.trig = Append(@, [busy |-> busy, started |-> FALSE])]

\* parseDuration or receiver.New fails: the command returns before it has
\* started the receiver or an analysis
DaemonStartFail ==
  /\ fn.pc = "daemon" /\ fn.main = "start"
  /\ fn' = [fn EXCEPT !.main = "returned"]
  /\ DaemonFrame

\* the receiver goroutine is started (wg.Add(1)), then the first analysis is
\* launched and the loop is entered
DaemonStart ==
  /\ fn.pc = "daemon" /\ fn.main = "start"
  /\ fn' = [launchAnalysis([fn EXCEPT !.recv = "running", !.wg = @ + 1])
              EXCEPT !.main = "loop"]
  /\ DaemonFrame

\* SIGTERM or SIGINT: ctx is cancelled
DaemonSignal ==
  /\ fn.pc = "daemon" /\ fn.main = "loop" /\ ~fn.signalled
  /\ fn' = [fn EXCEPT !.signalled = TRUE]
  /\ DaemonFrame

\* the loop takes case <-ticker.C (select may take it also when ctx is done)
DaemonTick ==
  /\ fn.pc = "daemon" /\ fn.main = "loop"
  /\ Len(fn.trig) < MaxLaunches
  /\ fn' = launchAnalysis(fn)
  /\ DaemonFrame

\* an analysis goroutine: runAnalyze returns
AnalysisReturns ==
  /\ fn.pc = "daemon"
  /\ \E k \in 1..Len(fn.runs) :
       /\ fn.runs[k] = "running"
       /\ fn' = [fn EXCEPT !.runs[k] = "returned"]
  /\ DaemonFrame

\* an analysis goroutine: runAnalyze returns an error, which is logged
AnalysisFails ==
  /\ fn.pc = "daemon"
  /\ \E k \in 1..Len(fn.runs) :
       /\ fn.runs[k] = "running"
       /\ fn' = [fn EXCEPT !.runs[k] = "failed"]
  /\ DaemonFrame

\* an analysis goroutine: the deferred reset of analyzeRunning (only with
\* skip-if-running)
AnalysisClearsFlag ==
  /\ fn.pc = "daemon"
  /\ \E k \in 1..Len(fn.runs) :
       /\ fn.runs[k] \in {"returned", "failed"}
       /\ fn' = [fn EXCEPT !.runs[k] = IF @ = "failed" THEN "clearedFailed" ELSE "cleared",
                           !.analyzeRunning = clearRunning(fn.skipIfRunning, @)]
  /\ DaemonFrame

\* an analysis goroutine: the deferred wg.Done()
AnalysisDone ==
  /\ fn.pc = "daemon"
  /\ \E k \in 1..Len(fn.runs) :
       /\ fn.runs[k] \in {"cleared", "clearedFailed"}
       /\ fn' = [fn EXCEPT !.runs[k] = IF @ = "clearedFailed" THEN "doneFailed" ELSE "done",
                           !.wg = @ - 1]
  /\ DaemonFrame

\* the receiver goroutine: recv.Start returns (ctx is done, or the server
\* failed), then wg.Done()
ReceiverStops ==
  /\ fn.pc = "daemon" /\ fn.recv = "running"
  /\ fn' = [fn EXCEPT !.recv = "stopped", !.wg = @ - 1]
  /\ DaemonFrame

\* the loop takes case <-ctx.Done() and calls wg.Wait()
DaemonDrain ==
  /\ fn.pc = "daemon" /\ fn.main = "loop" /\ fn.signalled
  /\ fn' = [fn EXCEPT !.main = "waiting"]
  /\ DaemonFrame

\* wg.Wait() returns; the metrics server is shut down, the command returns
\* and the deferred db.Close() runs
DaemonReturn ==
  /\ fn.pc = "daemon" /\ fn.main = "waiting"
  /\ wgWait(fn.wg)
  /\ fn' = [fn EXCEPT !.main = "returned"]
  /\ DaemonFrame

NextDaemon ==
  \/ DaemonStartFail
  \/ DaemonStart
  \/ DaemonSignal
  \/ DaemonTick
  \/ AnalysisReturns
  \/ AnalysisFails
  \/ AnalysisClearsFlag
  \/ AnalysisDone
  \/ ReceiverStops
  \/ DaemonDrain
  \/ DaemonReturn

SpecDaemon == InitDaemon /\ [][NextDaemon]_vars

\* C22: with skip-if-running at most one analysis is executing at any time;
\* a trigger that comes while one is executing starts none, and there are
\* no more analysis goroutines than triggers that started one (nothing is
\* queued).
C22_NoOverlappingRuns ==
  (fn.pc = "daemon" /\ fn.skipIfRunning) =>
    /\ Cardinality({k \in 1..Len(fn.runs) : fn.runs[k] = "running"}) <= 1
    /\ \A t \in 1..Len(fn.trig) : fn.trig[t].busy => ~fn.trig[t].started
    /\ Len(fn.runs) = Cardinality({t \in 1..Len(fn.trig) : fn.trig[t].started})

\* a trigger was dropped during a run, that run has ended, and a later
\* trigger started the second run
C22_Witness ==
  /\ fn.pc = "daemon" /\ fn.skipIfRunning
  /\ Len(fn.trig) = 3 /\ fn.trig[2].busy /\ ~fn.trig[2].started
  /\ fn.trig[3].started /\ fn.runs[1] = "done" /\ fn.runs[2] = "running"

\* C23: when the daemon command has returned, every analysis goroutine it
\* launched and the receiver goroutine have finished.
C23_DrainBeforeReturn ==
  (fn.pc = "daemon" /\ fn.main = "returned") =>
    /\ \A k \in 1..Len(fn.runs) : fn.runs[k] \in {"done", "doneFailed"}
    /\ fn.recv # "running"

\* the signal came while two analyses (skip-if-running off) were executing
C23_Witness ==
  /\ fn.pc = "daemon" /\ fn.main = "returned" /\ fn.signalled
  /\ ~fn.skipIfRunning /\ Len(fn.runs) >= 2 /\ fn.recv = "stopped"

\* The daemon where the scheduler lets an analysis goroutine whose
\* runAnalyze has returned run its deferred functions.
SpecDaemonLive ==
  /\ InitDaemon
  /\ [][NextDaemon]_vars
  /\ WF_vars(AnalysisClearsFlag)
  /\ WF_vars(AnalysisDone)

\* runAnalyze of some analysis goroutine has returned and its deferred
\* reset has not run yet
ResetPending ==
  /\ fn.pc = "daemon"
  /\ \E k \in 1..Len(fn.runs) : fn.runs[k] \in {"returned", "failed"}

\* every analysis goroutine launched so far has ended its run and reset the
\* flag
RunsEnded ==
  /\ fn.pc = "daemon"
  /\ Len(fn.runs) > 0
  /\ \A k \in 1..Len(fn.runs) :
       fn.runs[k] \in {"cleared", "clearedFailed", "done", "doneFailed"}

\* the loop takes a tick
TickTaken ==
  /\ fn.pc = "daemon" /\ fn.main = "loop"
  /\ Len(fn'.trig) = Len(fn.trig) + 1

\* C37: the daemon does not get stuck skipping: a run that has ended,
\* with or without an error, has its running flag cleared, and a timer
\* tick that comes when the runs launched so far have ended starts a new
\* analysis.
C37_NeverStuckSkipping ==
  /\ ResetPending ~> (fn.pc = "daemon" /\ ~fn.analyzeRunning)
  /\ [](RunsEnded => ~fn.analyzeRunning)
  /\ [][(TickTaken /\ RunsEnded) =>
         /\ fn'.trig[Len(fn'.trig)].started
         /\ fn'.runs[Len(fn'.runs)] = "running"
         /\ Len(fn'.runs) = Len(fn.runs) + 1]_vars

\* a tick was skipped during the first run, the run failed, and the tick
\* after its end started the second run, which has ended as well
C37_Witness ==
  /\ fn.pc = "daemon" /\ fn.skipIfRunning /\ ~fn.signalled
  /\ Len(fn.trig) = 3 /\ ~fn.trig[2].started /\ fn.trig[3].started
  /\ fn.runs[1] = "doneFailed" /\ fn.runs[2] = "cleared"
  /\ ~fn.analyzeRunning


(***************************************************************************)
(* The window statements of the usage table, one call each                 *)
(* (SpecQuery).  The timestamp column holds whole seconds; the cutoff a    *)
(* caller passes is a time.Time, here in ticks, and each statement binds   *)
(* its Unix() value.  A result list is the statement's rows in the order   *)
(* SQLite yields them, which no ORDER BY fixes.                            *)
(***************************************************************************)
\* res.RowsAffected() of the DELETE
PurgeRowsAffected(tbl, before) ==
  Cardinality({x \in tbl : x.timestamp < Unix(before)})

\* the rows a usage table can hold, and tables of up to MaxList rows with
\* UNIQUE(iam_role, privilege)
QueryRows ==
  [timestamp : 0..MaxTime, iam_role : {RoleA_ARN, RoleB_Name},
   privilege : {p_s3_GetObject, p_ec2_DescribeInstances}, call_count : {1}]

QueryTables ==
  {t \in SUBSET QueryRows :
     /\ Cardinality(t) <= MaxList
     /\ \A x, y \in t : x.iam_role = y.iam_role /\ x.privilege = y.privilege => x = y}

\* the cutoffs tried: every tick of the seconds the rows can carry, and
\* one second beyond
QueryCutoffs == 0..((MaxTime + 1) * TicksPerSec)

InitQuery ==
  /\ privilege_usage \in QueryTables
  /\ analysis_results = {}
  /\ tx = [r \in Reqs |-> txIdle]
  /\ ledger = ledgerEmpty
  /\ now = 0
  /\ assignments = <<>>
  /\ eng = engIdle
  /\ \E t \in QueryCutoffs, role \in {RoleA_ARN, RoleB_Name} :
       fn = [pc |-> "queryArgs", t |-> t, role |-> role,
             usage0 |-> privilege_usage, results0 |-> analysis_results,
             n |-> 0, out |-> <<>>]

\* db.PurgeOldRecords(ctx, before)
CallPurgeOldRecords ==
  /\ fn.pc = "queryArgs"
  /\ privilege_usage' = PurgeOldRecords(privilege_usage, fn.t)
  /\ fn' = [fn EXCEPT !.pc = "purged",
                      !.n = PurgeRowsAffected(privilege_usage, fn.t)]
  /\ UNCHANGED <<analysis_results, tx, ledger, now, assignments, eng>>

\* db.GetObservedRoles(ctx, since)
CallGetObservedRoles ==
  /\ fn.pc = "queryArgs"
  /\ \E out \in Orderings(GetObservedRoles(privilege_usage, fn.t)) :
       fn' = [fn EXCEPT !.pc = "roles", !.out = out]
  /\ UNCHANGED <<privilege_usage, analysis_results, tx, ledger, now, assignments, eng>>

\* db.GetUsedPrivilegesForRole(ctx, role, since)
CallGetUsedPrivilegesForRole ==
  /\ fn.pc = "queryArgs"
  /\ \E out \in Orderings(GetUsedPrivilegesForRole(privilege_usage, fn.role, fn.t)) :
       fn' = [fn EXCEPT !.pc = "privileges", !.out = out]
  /\ UNCHANGED <<privilege_usage, analysis_results, tx, ledger, now, assignments, eng>>

NextQuery ==
  \/ CallPurgeOldRecords
  \/ CallGetObservedRoles
  \/ CallGetUsedPrivilegesForRole

SpecQuery == InitQuery /\ [][NextQuery]_vars

\* the instant, in ticks, a stored timestamp stands for
TicksOf(ts) == ts * TicksPerSec

\* C26 as stated, the cutoff being the time the caller passes:
\* PurgeOldRecords(before) deletes exactly the rows whose timestamp is before
\* that time, returns their number and changes nothing else.
C26_PurgeBeforeCutoffTime ==
  fn.pc = "purged" =>
    /\ privilege_usage = {x \in fn.usage0 : ~(TicksOf(x.timestamp) < fn.t)}
    /\ fn.n = Cardinality({x \in fn.usage0 : TicksOf(x.timestamp) < fn.t})
    /\ analysis_results = fn.results0

\* C26, amended: PurgeOldRecords(before) deletes exactly the usage rows whose
\* timestamp is strictly less than the cutoff's whole second (before.Unix()),
\* returns the number deleted, and leaves every other row (a row of the
\* cutoff's second included) and the analysis_results table unchanged.
C26_PurgeBeforeCutoffSecond ==
  fn.pc = "purged" =>
    /\ \A x \in fn.usage0 :
         (x \notin privilege_usage) <=> (x.timestamp < fn.t \div TicksPerSec)
    /\ privilege_usage \subseteq fn.usage0
    /\ fn.n = Cardinality(fn.usage0 \ privilege_usage)
    /\ analysis_results = fn.results0

\* a purge that deleted a row and kept a row of the cutoff's second
C26_Witness ==
  /\ fn.pc = "purged" /\ fn.n = 1
  /\ \E x \in privilege_usage : x.timestamp = fn.t \div TicksPerSec

\* C27 as stated, since being the time the caller passes: the two queries
\* return, without duplicates, exactly the identities (the privileges of the
\* role) of the rows whose timestamp is at or after that time.
C27_QueriesAtOrAfterTime ==
  /\ fn.pc = "roles" =>
       /\ NoDuplicates(fn.out)
       /\ Range(fn.out) =
            {x.iam_role : x \in {y \in privilege_usage : TicksOf(y.timestamp) >= fn.t}}
  /\ fn.pc = "privileges" =>
       /\ NoDuplicates(fn.out)
       /\ Range(fn.out) =
            {x.privilege : x \in {y \in privilege_usage :
                                    y.iam_role = fn.role /\ TicksOf(y.timestamp) >= fn.t}}

\* C27, amended: GetObservedRoles(since) returns, without duplicates, exactly
\* the identities that have a usage row with timestamp at or after the whole
\* second of since (since.Unix()), and GetUsedPrivilegesForRole(role, since)
\* exactly the privileges of the rows of that role with such a timestamp; a
\* row of the second of since is included and rows of other roles are never
\* returned.
C27_QueriesAtOrAfterSecond ==
  /\ fn.pc = "roles" =>
       /\ NoDuplicates(fn.out)
       /\ \A role \in {RoleA_ARN, RoleB_Name} :
            (\E i \in 1..Len(fn.out) : fn.out[i] = role) <=>
            (\E x \in privilege_usage :
               x.iam_role = role /\ x.timestamp >= fn.t \div TicksPerSec)
       /\ Range(fn.out) \subseteq {RoleA_ARN, RoleB_Name}
  /\ fn.pc = "privileges" =>
       /\ NoDuplicates(fn.out)
       /\ \A p \in {p_s3_GetObject, p_ec2_DescribeInstances} :
            (\E i \in 1..Len(fn.out) : fn.out[i] = p) <=>
            (\E x \in privilege_usage :
               /\ x.iam_role = fn.role /\ x.privilege = p
               /\ x.timestamp >= fn.t \div TicksPerSec)
       /\ Range(fn.out) \subseteq {p_s3_GetObject, p_ec2_DescribeInstances}

\* a role whose only row is of the second of since is returned, and a role
\* whose row is a second older is not
C27_Witness ==
  /\ fn.pc = "roles" /\ Len(fn.out) = 1
  /\ \E x, y \in privilege_usage :
       /\ x.iam_role = fn.out[1] /\ x.timestamp = fn.t \div TicksPerSec
       /\ y.iam_role # fn.out[1] /\ y.timestamp + 1 = fn.t \div TicksPerSec


\* C28: the purge of a cycle acts only after Engine.Run has returned without
\* an error, its cutoff is the time of the purge minus (window_days + 7)
\* days, and no usage row whose timestamp is inside the window of the
\* cycle's run (at or after the second of its since) is deleted.
C28_PurgeKeepsWindow ==
  /\ privilege_usage # fn.usage0 =>
       fn.stage = "done" /\ eng.pc = "done" /\ ~fn.err
  /\ fn.stage = "done" =>
       \/ privilege_usage = fn.usage0
       \/ privilege_usage =
            {x \in fn.usage0 :
               x.timestamp >= (now - (WindowDays + 7) * DayTicks) \div TicksPerSec}
  /\ eng.pc \in {"observed", "done"} =>
       \A x \in fn.usage0 :
         x.timestamp >= eng.since \div TicksPerSec => x \in privilege_usage

\* a purge that ran later than the run's start deleted a row and kept a row
\* of the very second the run's window starts in
C28_Witness ==
  /\ fn.stage = "done" /\ eng.pc = "done" /\ now > eng.now
  /\ privilege_usage # fn.usage0
  /\ \E x \in privilege_usage : x.timestamp = eng.since \div TicksPerSec


(***************************************************************************)
(* Two analysis runs with the receiver committing in between and during    *)
(* them (SpecRuns).  A run is Engine.Run, step by step; the receiver's     *)
(* BatchRecordPrivilegeUsage of one record is one commit.  fn carries the  *)
(* number of the run, the records committed while the first run was        *)
(* executing and the results the first run returned (history).  The purge  *)
(* that follows a run deletes nothing inside a window (its cutoff lies     *)
(* seven days before it) and is left out.                                  *)
(***************************************************************************)
\* the commits of the receiver, and the ticks between the two runs
MaxCommits == 2
MaxGap == 2

\* the role the scrape returns for the first run
RunsRoleA ==
  [RoleName |-> RoleA_Name, RoleARN |-> RoleA_ARN,
   Privileges |-> <<p_s3_GetObject, p_ec2_DescribeInstances>>]

\* what the scrape of the second cycle returns: the role again, nothing,
\* or another role only
RunsScraped ==
  {<<RunsRoleA>>, <<>>,
   <<[RoleName |-> RoleB_Name, RoleARN |-> RoleB_ARN,
      Privileges |-> <<p_ec2_DescribeInstances>>]>>}

\* the records the receiver commits: the role under its ARN, stamped
\* before the first window or at the time of the first run
RunsRecords ==
  {[Timestamp |-> t, IAMRole |-> RoleA_ARN, Privilege |-> p, CallCount |-> 1] :
     t \in {0, EngineNow}, p \in {p_s3_HeadObject, p_ec2_DescribeInstances}}

InitRuns ==
  /\ privilege_usage = {}
  /\ analysis_results = {}
  /\ tx = [r \in Reqs |-> txIdle]
  /\ ledger = ledgerEmpty
  /\ now = EngineNow
  /\ assignments = <<RunsRoleA>>
  /\ eng = engIdle
  /\ fn = [pc |-> "none", run |-> 1, commits |-> 0, late |-> {}, results1 |-> <<>>]

\* handleTraces: a batch of one record is committed
RunsCommit ==
  /\ fn.commits < MaxCommits
  /\ \E rec \in RunsRecords :
       /\ privilege_usage' = ApplyBatch(privilege_usage, <<rec>>)
       /\ fn' = [fn EXCEPT !.commits = @ + 1,
                           !.late = IF fn.run = 1 /\ eng.pc = "observed"
                                    THEN @ \cup {rec} ELSE @]
  /\ UNCHANGED <<analysis_results, tx, ledger, now, assignments, eng>>

\* the first run has returned; after the interval the next cycle scrapes
\* and its run is about to start
RunsNext ==
  /\ fn.run = 1 /\ eng.pc \in {"done", "error"}
  /\ \E gap \in 0..MaxGap, scraped \in RunsScraped :
       /\ now' = now + gap
       /\ assignments' = scraped
  /\ fn' = [fn EXCEPT !.run = 2, !.results1 = eng.results]
  /\ eng' = engIdle
  /\ UNCHANGED <<privilege_usage, analysis_results, tx, ledger>>

NextRuns ==
  \/ RunsCommit
  \/ RunsNext
  \/ RunBegin
  \/ RunQueryFail
  \/ RunSkipUnknownRole
  \/ RunCorrelateFail
  \/ RunCorrelateRole
  \/ RunUnobserved
  \/ RunEnd

SpecRuns == InitRuns /\ [][NextRuns]_vars

\* the results of a list that belong to the identity scraped as a and carry
\* the IAM name of the privilege of rec as used
Reflecting(results, a, rec) ==
  {k \in 1..Len(results) :
     /\ results[k].IAMRole \in {a.RoleARN, a.RoleName}
     /\ \E j \in 1..Len(results[k].Used) :
          results[k].Used[j] = MapSDKToIAM(rec.Privilege)}

\* the second run produced a snapshot of the identity of rec, the record's
\* timestamp is inside the second run's window, and the first run's
\* snapshot does not reflect it
LateCase(rec) ==
  /\ fn.run = 2 /\ eng.pc = "done"
  /\ rec.Timestamp >= eng.since
  /\ \E i \in 1..Len(assignments) : rec.IAMRole \in Names(assignments[i])
  /\ Reflecting(fn.results1, RunsRoleA, rec) = {}

\* C29: the queries of a run use the since taken at its start (the used
\* privileges of every result are those of rows at or after it), and a
\* record committed while the first run was executing, which the first
\* run's snapshot does not reflect, is reflected in the second run's
\* snapshot of the identity when its timestamp is inside the second run's
\* window and the identity is still scraped.
C29_LateRecordInNextRun ==
  /\ eng.pc \in {"observed", "done"} =>
       /\ eng.since = eng.now - WindowTicks
       /\ \A k \in 1..Len(eng.results) :
            Range(eng.results[k].Used) \subseteq
              {MapSDKToIAM(p) :
                 p \in GetUsedPrivilegesForRole(privilege_usage,
                                                eng.results[k].IAMRole, eng.since)}
  /\ \A rec \in fn.late :
       LateCase(rec) => Reflecting(eng.results, RunsRoleA, rec) # {}

\* the same, for second runs in which no query of an identity failed
C29_LateRecordUnlessQueryFailed ==
  eng.failed = {} => C29_LateRecordInNextRun

\* the second run has returned; the identity the first run analysed is no
\* longer scraped and has no usage row inside the second run's window
DroppedIdentity ==
  /\ fn.run = 2 /\ eng.pc = "done"
  /\ Len(fn.results1) > 0
  /\ \A i \in 1..Len(assignments) : Names(assignments[i]) \cap Names(RunsRoleA) = {}
  /\ GetObservedRoles(privilege_usage, eng.since) \cap Names(RunsRoleA) = {}

\* C40: the row of an identity that is no longer scraped and no longer
\* observed outlives the later run: GetLatestAnalysisResults, which
\* returns every row ordered by identity, still returns the result the
\* first run produced for it.
C40_RowOfDroppedIdentityKept ==
  DroppedIdentity =>
    \A out \in GetLatestAnalysisResults(analysis_results) :
      /\ \A i, j \in 1..Len(out) :
           i < j => RoleRank(out[i].IAMRole) <= RoleRank(out[j].IAMRole)
      /\ \A k \in 1..Len(fn.results1) :
           \E j \in 1..Len(out) :
             /\ out[j].IAMRole = fn.results1[k].IAMRole
             /\ out[j].AssignedPrivs = fn.results1[k].Assigned
             /\ out[j].UnusedPrivs = fn.results1[k].Unused

\* no step of the two cycles removes or rewrites a row of analysis_results
C40_NoRowDeleted == [][analysis_results \subseteq analysis_results']_vars


(***************************************************************************)
(* handleTraces, from the request to its response (SpecTraces).  A         *)
(* request is its method, the length of its body, whether reading the     *)
(* body fails for another reason than its size, its Content-Type, whether  *)
(* the body is a well-formed message in protobuf JSON and in binary       *)
(* protobuf, and whether parseTraces extracts a record from it.  The       *)
(* batch write is the transaction of request 1 above, statement by         *)
(* statement.  fn carries the request, the table as the request found it,  *)
(* the outcome of the write and the status answered.                       *)
(***************************************************************************)
maxBodyBytes == 33554432

TraceRequests ==
  [method : {"POST", "GET"},
   len : {0, maxBodyBytes, maxBodyBytes + 1},
   readErr : BOOLEAN,
   ct : {"application/json", "application/x-protobuf-json",
         "application/x-protobuf", ""},
   validJSON : BOOLEAN, validProto : BOOLEAN,
   records : BOOLEAN]

\* the status answered before the database is touched, 0 when the handler
\* goes on to BatchRecordPrivilegeUsage
preStatus(req) ==
  IF req.method # "POST" THEN 405
  ELSE IF req.len > maxBodyBytes \/ req.readErr THEN 413
  ELSE IF (IF req.ct = "application/json" \/ req.ct = "application/x-protobuf-json"
           THEN ~req.validJSON ELSE ~req.validProto) THEN 400
  ELSE IF ~req.records THEN 200
  ELSE 0

\* a handler that answers 200 whatever the write returned
writeStatus_AlwaysOK(err) == 200

\* the status after BatchRecordPrivilegeUsage returned
writeStatus(err) == IF err THEN 500 ELSE 200

\* no request is being handled
fnHTTP ==
  [pc |-> "http", stage |-> "idle", status |-> 0, db |-> "none", n |-> 0,
   usage0 |-> {},
   req |-> [method |-> "GET", len |-> 0, readErr |-> FALSE, ct |-> "",
            validJSON |-> FALSE, validProto |-> FALSE, records |-> FALSE]]

InitTraces ==
  /\ privilege_usage = {}
  /\ analysis_results = {}
  /\ tx = [r \in Reqs |-> txIdle]
  /\ ledger = ledgerEmpty
  /\ now = 0
  /\ assignments = <<>>
  /\ eng = engIdle
  /\ fn = fnHTTP

\* a request arrives and is handled up to its response or up to the call of
\* BatchRecordPrivilegeUsage
TracesArrive ==
  /\ fn.stage = "idle"
  /\ \E req \in TraceRequests :
       fn' = [fn EXCEPT !.req = req, !.usage0 = privilege_usage,
                        !.db = "none", !.n = 0,
                        !.status = preStatus(req),
                        !.stage = IF preStatus(req) = 0 THEN "db" ELSE "responded"]
  /\ UNCHANGED <<privilege_usage, analysis_results, tx, ledger, now, assignments, eng>>

\* BatchRecordPrivilegeUsage of the request, one step
TracesWrite ==
  /\ fn.stage = "db"
  /\ \/ BeginTx(1)
     \/ ExecRecord(1)
     \/ TxFail(1)
     \/ Commit(1)

\* BatchRecordPrivilegeUsage has returned: 500 on its error, else 200
TracesRespond ==
  /\ fn.stage = "db" /\ tx[1].pc \in {"failed", "committed"}
  /\ fn' = [fn EXCEPT !.stage = "responded",
                      !.db = tx[1].pc, !.n = tx[1].n,
                      !.status = writeStatus(tx[1].pc = "failed")]
  /\ tx' = [tx EXCEPT ![1] = txIdle]
  /\ UNCHANGED <<privilege_usage, analysis_results, ledger, now, assignments, eng>>

\* the response is written; the server waits for the next request
TracesDone ==
  /\ fn.stage = "responded"
  /\ fn' = fnHTTP
  /\ UNCHANGED <<privilege_usage, analysis_results, tx, ledger, now, assignments, eng>>

NextTraces ==
  \/ TracesArrive
  \/ TracesWrite
  \/ TracesRespond
  \/ TracesDone

SpecTraces == InitTraces /\ [][NextTraces]_vars

\* the body was read in full and is a well-formed message for its
\* Content-Type
Decodes(req) ==
  /\ req.len <= 33554432 /\ ~req.readErr
  /\ IF req.ct \in {"application/json", "application/x-protobuf-json"}
     THEN req.validJSON ELSE req.validProto

\* C30: a POST to /v1/traces is answered 200 when the body decodes and
\* either no record was extracted or the batch commit succeeded, 400 when
\* the body fails to decode, 413 when the body exceeds the size cap, 500
\* when the batch write fails; whenever the answer is not 200 the
\* privilege_usage table is as the request found it.
C30_StatusOfPost ==
  (fn.stage = "responded" /\ fn.req.method = "POST") =>
    /\ (Decodes(fn.req) /\ (~fn.req.records \/ fn.db = "committed")) => fn.status = 200
    /\ (fn.req.len <= 33554432 /\ ~fn.req.readErr /\ ~Decodes(fn.req)) => fn.status = 400
    /\ fn.req.len > 33554432 => fn.status = 413
    /\ fn.db = "failed" => fn.status = 500
    /\ fn.status \in {200, 400, 413, 500}
    /\ fn.status # 200 => privilege_usage = fn.usage0
    /\ (fn.status = 200 /\ fn.db = "none") => privilege_usage = fn.usage0

\* a request whose write failed after a statement had run was answered 500
\* and left the rows of an earlier request as they were
C30_Witness ==
  /\ fn.stage = "responded" /\ fn.req.method = "POST"
  /\ fn.status = 500 /\ fn.n >= 1
  /\ privilege_usage # {} /\ privilege_usage = fn.usage0


(***************************************************************************)
(* parseTraces (SpecParse).  A ResourceSpans is its resource attributes    *)
(* and its spans (the spans of all its ScopeSpans, in order); a KeyValue   *)
(* is a key and a value that is a string or of another kind.  The         *)
(* resources of a request and their spans are revealed one by one as the   *)
(* loops range over them.  fn carries the resource of the current          *)
(* iteration with the spans passed so far, the records slice, the two      *)
(* counters and what they were when that resource was reached.             *)
(***************************************************************************)
\* the spans and the resources of a request
MaxSpans == 3
MaxResources == 2

\* kv.GetValue().GetStringValue(): "" for a value that is not a string
GetStringValue(kv, none) == IF kv.kind = "string" THEN kv.s ELSE none

RECURSIVE attrValue(_, _, _)
\* attrValue: the first non-empty string value under key, else ""; none is
\* the empty string as the attribute's values are written here
attrValue(attrs, key, none) ==
  IF Len(attrs) = 0 THEN none
  ELSE IF Head(attrs).key = key /\ GetStringValue(Head(attrs), none) # none
       THEN GetStringValue(Head(attrs), none)
       ELSE attrValue(Tail(attrs), key, none)

\* a privilege that keeps the service as the span wrote it
normalizePrivilege_KeepCase(service, operation) ==
  service \o <<COLON>> \o operation

\* normalizePrivilege: fmt.Sprintf("%s:%s", strings.ToLower(service), operation)
normalizePrivilege(service, operation) ==
  ToLower(service) \o <<COLON>> \o operation

\* spanTimestamp: the span's start time, or the clock when that is zero
spanTimestamp(span, clock) == IF span.start # 0 THEN span.start ELSE clock

RECURSIVE parseSpans(_, _, _, _)
\* the inner loop of parseTraces over the spans of one resource:
\* [records, received, skipped]
parseSpans(spans, iamRole, clock, acc) ==
  IF Len(spans) = 0 THEN acc
  ELSE LET span == Head(spans)
           service == attrValue(span.attrs, "aws.service", <<>>)
           operation == attrValue(span.attrs, "aws.operation", <<>>)
       IN IF service = <<>> \/ operation = <<>>
          THEN parseSpans(Tail(spans), iamRole, clock,
                          [acc EXCEPT !.received = @ + 1, !.skipped = @ + 1])
          ELSE parseSpans(Tail(spans), iamRole, clock,
                 [acc EXCEPT !.received = @ + 1,
                    !.records = Append(@,
                       [Timestamp |-> spanTimestamp(span, clock), IAMRole |-> iamRole,
                        Privilege |-> normalizePrivilege(service, operation),
                        CallCount |-> 1])])

\* one iteration of the outer loop of parseTraces
parseResource(rs, clock, acc) ==
  LET iamRole == attrValue(rs.attrs, "aws.iam.role", "") IN
    IF iamRole = "" THEN acc
    ELSE parseSpans(rs.spans, iamRole, clock, acc)

\* the spans of a request: service and operation (written S3 / GetObject,
\* with a start time, and EC2 / DescribeInstances, without one), one of the
\* two, an empty service, a service that is not a string
ParseSpans ==
  LET svc(v) == [key |-> "aws.service", kind |-> "string", s |-> v]
      op(v) == [key |-> "aws.operation", kind |-> "string", s |-> v]
      GetObject == <<"G", "e", "t", "O", "b", "j", "e", "c", "t">>
  IN { [start |-> 1, attrs |-> <<svc(<<"S", "3">>), op(GetObject)>>],
       [start |-> 0,
        attrs |-> <<op(<<"D", "e", "s", "c", "r", "i", "b", "e", "I", "n", "s", "t", "a", "n", "c", "e", "s">>),
                    svc(<<"E", "C", "2">>)>>],
       [start |-> 1, attrs |-> <<op(GetObject)>>],
       [start |-> 1, attrs |-> <<svc(<<"S", "3">>)>>],
       [start |-> 1, attrs |-> <<svc(<<>>), op(GetObject)>>],
       [start |-> 1,
        attrs |-> <<[key |-> "aws.service", kind |-> "int", s |-> <<>>], op(GetObject)>>] }

\* the resource attributes of a request: no aws.iam.role, an empty one, or
\* a role
ParseResourceAttrs ==
  { <<>>,
    <<[key |-> "aws.iam.role", kind |-> "string", s |-> ""]>>,
    <<[key |-> "service.name", kind |-> "string", s |-> "api"],
      [key |-> "aws.iam.role", kind |-> "string", s |-> RoleA_ARN]>> }

fnParse ==
  [pc |-> "parse", n |-> 0, spans |-> 0, rs |-> [attrs |-> <<>>, spans |-> <<>>],
   records |-> <<>>, received |-> 0, skipped |-> 0,
   records0 |-> <<>>, received0 |-> 0, skipped0 |-> 0]

InitParse ==
  /\ privilege_usage = {}
  /\ analysis_results = {}
  /\ tx = [r \in Reqs |-> txIdle]
  /\ ledger = ledgerEmpty
  /\ now = TicksPerSec
  /\ assignments = <<>>
  /\ eng = engIdle
  /\ fn = fnParse

\* parseTraces: the outer loop reaches the next ResourceSpans
ParseNextResource ==
  /\ fn.pc = "parse" /\ fn.n < MaxResources
  /\ \E a \in ParseResourceAttrs :
       fn' = [fn EXCEPT !.n = @ + 1, !.rs = [attrs |-> a, spans |-> <<>>],
                        !.records0 = fn.records, !.received0 = fn.received,
                        !.skipped0 = fn.skipped]
  /\ UNCHANGED <<privilege_usage, analysis_results, tx, ledger, now, assignments, eng>>

\* parseTraces: the next span of the current resource; under a resource
\* without a role the loop over the spans is never entered
ParseNextSpan ==
  /\ fn.pc = "parse" /\ fn.n > 0 /\ fn.spans < MaxSpans
  /\ \E span \in ParseSpans :
       LET acc == parseResource([attrs |-> fn.rs.attrs, spans |-> <<span>>], now,
                    [records |-> fn.records, received |-> fn.received,
                     skipped |-> fn.skipped])
       IN fn' = [fn EXCEPT !.spans = @ + 1,
                           !.rs = [attrs |-> fn.rs.attrs,
                                   spans |-> Append(fn.rs.spans, span)],
                           !.records = acc.records, !.received = acc.received,
                           !.skipped = acc.skipped]
  /\ UNCHANGED <<privilege_usage, analysis_results, tx, ledger, now, assignments, eng>>

\* parseTraces returns; the handler takes the next request (the counters
\* of the metrics registry are followed per request)
ParseReturn ==
  /\ fn.pc = "parse" /\ fn.n > 0
  /\ fn' = fnParse
  /\ UNCHANGED <<privilege_usage, analysis_results, tx, ledger, now, assignments, eng>>

NextParse ==
  \/ ParseNextResource
  \/ ParseNextSpan
  \/ ParseReturn

SpecParse == InitParse /\ [][NextParse]_vars

\* the non-empty string values a list of attributes has under key
ValuesOf(attrs, key) ==
  {attrs[i].s : i \in {j \in 1..Len(attrs) :
                         /\ attrs[j].key = key /\ attrs[j].kind = "string"
                         /\ Len(attrs[j].s) > 0}}

\* the role of a resource, when it has one
RolesOf(rs) ==
  {rs.attrs[i].s : i \in {j \in 1..Len(rs.attrs) :
                            /\ rs.attrs[j].key = "aws.iam.role"
                            /\ rs.attrs[j].kind = "string" /\ rs.attrs[j].s # ""}}

\* the spans of a resource that have a service and an operation
Complete(rs) ==
  {i \in 1..Len(rs.spans) :
     /\ ValuesOf(rs.spans[i].attrs, "aws.service") # {}
     /\ ValuesOf(rs.spans[i].attrs, "aws.operation") # {}}

\* C31: under a resource with a non-empty aws.iam.role every span with a
\* non-empty aws.service and aws.operation yields exactly one record (the
\* role, call_count 1, privilege = lowercase(service) : operation), in span
\* order, and every other span of it yields none and adds one to the skipped
\* counter; the spans of a resource without aws.iam.role yield no record;
\* spans-received equals records produced plus spans-skipped.
C31_OneRecordPerSpan ==
  (fn.pc = "parse" /\ fn.n > 0) =>
    LET rs == fn.rs
        out == SubSeq(fn.records, Len(fn.records0) + 1, Len(fn.records))
        nth(k) == CHOOSE i \in Complete(rs) :
                    Cardinality({j \in Complete(rs) : j <= i}) = k
    IN /\ SubSeq(fn.records, 1, Len(fn.records0)) = fn.records0
       /\ RolesOf(rs) = {} => out = <<>>
       /\ RolesOf(rs) # {} =>
            /\ Len(out) = Cardinality(Complete(rs))
            /\ \A k \in 1..Len(out) :
                 /\ out[k].IAMRole \in RolesOf(rs)
                 /\ out[k].CallCount = 1
                 /\ \E s \in ValuesOf(rs.spans[nth(k)].attrs, "aws.service"),
                       o \in ValuesOf(rs.spans[nth(k)].attrs, "aws.operation") :
                      out[k].Privilege = ToLower(s) \o <<":">> \o o
            /\ fn.skipped - fn.skipped0 = Len(rs.spans) - Cardinality(Complete(rs))
       /\ fn.received = Len(fn.records) + fn.skipped

\* a resource with a role had a span written "S3" that gave s3:GetObject
\* and a span without a service that was skipped, after a resource without
\* a role whose span gave nothing and was not counted
C31_Witness ==
  /\ fn.pc = "parse" /\ fn.n = 2 /\ fn.spans = 3
  /\ fn.records0 = <<>> /\ fn.received0 = 0
  /\ Len(fn.rs.spans) = 2 /\ Len(fn.records) = 1 /\ fn.skipped = 1
  /\ fn.records[1].Privilege = p_s3_GetObject


(***************************************************************************)
(* The risk classifier, one call each (SpecClassify).  ClassifyPrivilege   *)
(* is tried on a service and an action joined by a colon and on an action  *)
(* alone; ClassifySet on lists of classified privileges.                   *)
(***************************************************************************)
\* the actions tried: one per rule, wildcards behind a HIGH and a LOW
\* prefix, a prefix in lower case, no action at all
ClassifyActions ==
  { <<"D", "e", "l", "e", "t", "e", "B", "u", "c", "k", "e", "t">>,
    <<"D", "e", "l", "e", "t", "e", "*">>,
    <<"T", "e", "r", "m", "i", "n", "a", "t", "e", "I", "n", "s", "t", "a", "n", "c", "e", "s">>,
    <<"T", "e", "r", "m", "i", "n", "a", "t", "e", "*">>,
    <<"D", "e", "s", "c", "r", "i", "b", "e", "I", "n", "s", "t", "a", "n", "c", "e", "s">>,
    <<"L", "i", "s", "t", "R", "o", "l", "e", "s">>,
    <<"G", "e", "t", "O", "b", "j", "e", "c", "t">>,
    <<"G", "e", "t", "*">>,
    <<"P", "u", "t", "O", "b", "j", "e", "c", "t">>,
    <<"P", "a", "s", "s", "R", "o", "l", "e">>,
    <<"d", "e", "l", "e", "t", "e", "B", "u", "c", "k", "e", "t">>,
    <<"*">>,
    <<>> }

\* the services tried: an ordinary one, one spelt like a HIGH prefix, one
\* spelt like a LOW prefix, an empty one
ClassifyServices ==
  { <<"s", "3">>, <<"D", "e", "l", "e", "t", "e">>, <<"G", "e", "t">>, <<>> }

\* the privileges ClassifySet is tried on: HIGH, LOW, MEDIUM, a wildcard
\* behind a HIGH prefix, LOW
ClassifyUniverse ==
  { <<"s", "3", ":", "D", "e", "l", "e", "t", "e", "B", "u", "c", "k", "e", "t">>,
    p_s3_GetObject,
    <<"s", "3", ":", "P", "u", "t", "O", "b", "j", "e", "c", "t">>,
    <<"s", "3", ":", "D", "e", "l", "e", "t", "e", "*">>,
    p_ec2_DescribeInstances }

InitClassify ==
  /\ privilege_usage = {}
  /\ analysis_results = {}
  /\ tx = [r \in Reqs |-> txIdle]
  /\ ledger = ledgerEmpty
  /\ now = 0
  /\ assignments = <<>>
  /\ eng = engIdle
  /\ \/ \E svc \in ClassifyServices, action \in ClassifyActions, colon \in BOOLEAN :
          fn = [pc |-> "privilegeArg", colon |-> colon,
                svc |-> IF colon THEN svc ELSE <<>>, action |-> action,
                privilege |-> IF colon THEN svc \o <<COLON>> \o action ELSE action]
     \/ \E l \in SeqsUpTo(ClassifyUniverse, MaxList) :
          fn = [pc |-> "setArg", privileges |-> l]

\* ClassifyPrivilege(privilege)
CallClassifyPrivilege ==
  /\ fn.pc = "privilegeArg"
  /\ fn' = [pc |-> "privilegeClassified", colon |-> fn.colon, svc |-> fn.svc,
            action |-> fn.action, privilege |-> fn.privilege,
            out |-> ClassifyPrivilege(fn.privilege)]
  /\ UNCHANGED <<privilege_usage, analysis_results, tx, ledger, now, assignments, eng>>

\* ClassifySet(privileges)
CallClassifySet ==
  /\ fn.pc = "setArg"
  /\ fn' = [pc |-> "setClassified", privileges |-> fn.privileges,
            out |-> ClassifySet(fn.privileges)]
  /\ UNCHANGED <<privilege_usage, analysis_results, tx, ledger, now, assignments, eng>>

NextClassify ==
  \/ CallClassifyPrivilege
  \/ CallClassifySet

SpecClassify == InitClassify /\ [][NextClassify]_vars

\* HIGH > MEDIUM > LOW
RiskRank(level) ==
  CASE level = "HIGH" -> 3 [] level = "MEDIUM" -> 2 [] level = "LOW" -> 1 [] OTHER -> 0

\* the level the rule list gives a list, element by element
LevelOfElements(l) ==
  IF \E i \in 1..Len(l) : ClassifyPrivilege(l[i]) = "HIGH" THEN "HIGH"
  ELSE IF \E i \in 1..Len(l) : ClassifyPrivilege(l[i]) = "MEDIUM" THEN "MEDIUM"
  ELSE "LOW"

\* C32: ClassifySet(P) is HIGH iff some element of P classifies HIGH,
\* otherwise MEDIUM iff some element classifies MEDIUM, otherwise LOW (the
\* empty list is LOW); it is the same for every ordering of P and never
\* decreases when an element is added to P, wherever it is put.
C32_ClassifySetIsMaximum ==
  fn.pc = "setClassified" =>
    LET P == fn.privileges IN
      /\ fn.out = LevelOfElements(P)
      /\ Len(P) = 0 => fn.out = "LOW"
      /\ \A q \in SeqsUpTo(ClassifyUniverse, Len(P)) :
           (Len(q) = Len(P) /\ \A x \in ClassifyUniverse :
              Cardinality({i \in 1..Len(P) : P[i] = x}) =
              Cardinality({i \in 1..Len(q) : q[i] = x})) =>
             ClassifySet(q) = fn.out
      /\ \A x \in ClassifyUniverse :
           /\ RiskRank(ClassifySet(Append(P, x))) >= RiskRank(fn.out)
           /\ RiskRank(ClassifySet(<<x>> \o P)) >= RiskRank(fn.out)

\* a list with a MEDIUM element before a HIGH one is HIGH
C32_Witness ==
  /\ fn.pc = "setClassified" /\ Len(fn.privileges) = 2 /\ fn.out = "HIGH"
  /\ ClassifyPrivilege(fn.privileges[1]) = "MEDIUM"
  /\ ClassifyPrivilege(fn.privileges[2]) = "HIGH"

\* the level the stated rules give an action
RuleLevel(action) ==
  LET starts(p) == Len(action) >= Len(p) /\ \A i \in 1..Len(p) : action[i] = p[i] IN
    IF Len(action) > 0 /\ action[Len(action)] = "*" THEN "MEDIUM"
    ELSE IF \/ starts(<<"D", "e", "l", "e", "t", "e">>)
            \/ starts(<<"T", "e", "r", "m", "i", "n", "a", "t", "e">>) THEN "HIGH"
    ELSE IF \/ starts(<<"D", "e", "s", "c", "r", "i", "b", "e">>)
            \/ starts(<<"L", "i", "s", "t">>)
            \/ starts(<<"G", "e", "t">>) THEN "LOW"
    ELSE "MEDIUM"

\* C33: ClassifyPrivilege gives the action part (the text after the first
\* colon, the whole privilege when there is none) MEDIUM when it ends in *,
\* even behind Delete or Terminate; otherwise HIGH for the prefixes Delete and
\* Terminate; otherwise LOW for Describe, List and Get; MEDIUM for every
\* other action; the service part has no influence.
C33_ClassifyByAction ==
  fn.pc = "privilegeClassified" =>
    /\ fn.out = RuleLevel(fn.action)
    /\ fn.colon => \A svc \in ClassifyServices :
                     ClassifyPrivilege(svc \o <<":">> \o fn.action) = fn.out

\* Delete* behind a service spelt Delete is MEDIUM
C33_Witness ==
  /\ fn.pc = "privilegeClassified" /\ fn.colon
  /\ fn.svc = <<"D", "e", "l", "e", "t", "e">>
  /\ fn.action = <<"D", "e", "l", "e", "t", "e", "*">>
  /\ fn.out = "MEDIUM"


\* C34: every result Engine.Run produces, and every row it has persisted,
\* has a risk level among HIGH, MEDIUM, LOW, NONE that is the classification
\* of its unused list, and NONE only with an empty unused list.
C34_RiskOfUnused ==
  /\ \A k \in 1..Len(eng.results) :
       LET r == eng.results[k] IN
         /\ r.RiskLevel \in {"HIGH", "MEDIUM", "LOW", "NONE"}
         /\ r.RiskLevel = LevelOfElements(r.Unused)
         /\ r.RiskLevel = "NONE" => r.Unused = <<>>
  /\ \A x \in analysis_results :
       /\ x.risk_level \in {"HIGH", "MEDIUM", "LOW", "NONE"}
       /\ x.risk_level = LevelOfElements(jsonUnmarshal(x.unused_privileges))
       /\ x.risk_level = "NONE" => jsonUnmarshal(x.unused_privileges) = <<>>

\* a finished run with a result of an observed role that has nothing
\* unused (LOW) although something is assigned, and a result with something
\* unused
C34_Witness ==
  /\ eng.pc = "done"
  /\ \E k \in 1..Len(eng.results) :
       /\ eng.results[k].Unused = <<>> /\ eng.results[k].Assigned # <<>>
       /\ eng.results[k].RiskLevel = "LOW"
  /\ \E k \in 1..Len(eng.results) : eng.results[k].Unused # <<>>


\* ---------------------------------------------------------------------
\* ScrapeAll's goroutines, step by step (src/internal/scraper/iam.go
\* 78-110): one worker per role, the semaphore, the buffered result
\* channel, the goroutine that closes it and the collecting loop.
\* The channel is kept as the number of successful and of failed results
\* it buffers; which role a result belongs to does not steer any of the
\* goroutines.
\* ---------------------------------------------------------------------

\* The most roles ListRoles hands to the workers of one ScrapeAll call.
MaxWorkers == 6

\* make(chan scrapeResult, 0): an unbuffered channel modelled as one with
\* no room.
resultChCap_Unbuffered(n) == 0

\* resultCh := make(chan scrapeResult, len(roles))
resultChCap(n) == n

\* The per-role failure patterns: which ScrapeRole calls return an error.
FailurePatterns(n) == {{}, {i \in 1..n : i % 2 = 0}, 1..n}

Holding(g) == Cardinality({j \in DOMAIN g : g[j] \in {"run", "send"}})

Buffered(ch) == ch.ok + ch.err

InitCollect ==
    /\ privilege_usage = {}
    /\ analysis_results = {}
    /\ tx = <<>>
    /\ ledger = <<>>
    /\ now = 0
    /\ assignments = {}
    /\ eng = [pc |-> "idle"]
    /\ \E n \in 0..MaxWorkers : \E failing \in FailurePatterns(n) :
         fn = [pc |-> "collect", n |-> n, failing |-> failing,
               g |-> [i \in 1..n |-> "wait"],
               cap |-> resultChCap(n), ch |-> [ok |-> 0, err |-> 0],
               closes |-> 0, received |-> 0, appended |-> 0]

\* sem <- struct{}{}
CollectAcquire(i) ==
    /\ fn.pc = "collect"
    /\ fn.g[i] = "wait"
    /\ semAcquire(Holding(fn.g))
    /\ fn' = [fn EXCEPT !.g[i] = "run"]
    /\ UNCHANGED <<privilege_usage, analysis_results, tx, ledger, now, assignments, eng>>

\* ra, err := s.ScrapeRole(ctx, r) returns
CollectScraped(i) ==
    /\ fn.pc = "collect"
    /\ fn.g[i] = "run"
    /\ fn' = [fn EXCEPT !.g[i] = "send"]
    /\ UNCHANGED <<privilege_usage, analysis_results, tx, ledger, now, assignments, eng>>

\* resultCh <- scrapeResult{ra, err}, then the deferred <-sem and wg.Done()
CollectSend(i) ==
    /\ fn.pc = "collect"
    /\ fn.g[i] = "send"
    /\ Buffered(fn.ch) < fn.cap
    /\ fn' = [fn EXCEPT !.g[i] = "done",
                        !.ch = IF i \in fn.failing
                               THEN [@ EXCEPT !.err = @ + 1]
                               ELSE [@ EXCEPT !.ok = @ + 1]]
    /\ UNCHANGED <<privilege_usage, analysis_results, tx, ledger, now, assignments, eng>>

\* go func() { wg.Wait(); close(resultCh) }()
CollectClose ==
    /\ fn.pc = "collect"
    /\ fn.closes = 0
    /\ \A i \in DOMAIN fn.g : fn.g[i] = "done"
    /\ fn' = [fn EXCEPT !.closes = @ + 1]
    /\ UNCHANGED <<privilege_usage, analysis_results, tx, ledger, now, assignments, eng>>

\* for res := range resultCh: a failed result is logged and skipped
CollectReceiveErr ==
    /\ fn.pc = "collect"
    /\ fn.ch.err > 0
    /\ fn' = [fn EXCEPT !.ch.err = @ - 1, !.received = @ + 1]
    /\ UNCHANGED <<privilege_usage, analysis_results, tx, ledger, now, assignments, eng>>

\* for res := range resultCh: assignments = append(assignments, res.assignment)
CollectReceiveOk ==
    /\ fn.pc = "collect"
    /\ fn.ch.ok > 0
    /\ fn' = [fn EXCEPT !.ch.ok = @ - 1, !.received = @ + 1, !.appended = @ + 1]
    /\ UNCHANGED <<privilege_usage, analysis_results, tx, ledger, now, assignments, eng>>

\* the range loop ends on a closed and drained channel; return assignments, nil
CollectReturn ==
    /\ fn.pc = "collect"
    /\ fn.closes > 0
    /\ Buffered(fn.ch) = 0
    /\ fn' = [fn EXCEPT !.pc = "collected"]
    /\ UNCHANGED <<privilege_usage, analysis_results, tx, ledger, now, assignments, eng>>

NextCollect ==
    \/ \E i \in 1..MaxWorkers : i \in DOMAIN fn.g /\ CollectAcquire(i)
    \/ \E i \in 1..MaxWorkers : i \in DOMAIN fn.g /\ CollectScraped(i)
    \/ \E i \in 1..MaxWorkers : i \in DOMAIN fn.g /\ CollectSend(i)
    \/ CollectClose
    \/ CollectReceiveErr
    \/ CollectReceiveOk
    \/ CollectReturn

\* Every ScrapeRole call returns and the scheduler does not stop while
\* some goroutine can take a step.
SpecCollect == InitCollect /\ [][NextCollect]_vars /\ WF_vars(NextCollect)

CollectSafe ==
    /\ \A i \in DOMAIN fn.g : fn.g[i] = "send" => Buffered(fn.ch) < fn.cap
    /\ fn.closes <= 1
    /\ fn.closes = 1 => \A i \in DOMAIN fn.g : fn.g[i] = "done"
    /\ fn.pc = "collected" =>
         /\ fn.closes = 1
         /\ fn.received = fn.n
         /\ fn.appended = fn.n - Cardinality(fn.failing)

\* C36: ScrapeAll terminates for any number of roles and any pattern of
\* per-role failures when every ScrapeRole call returns: every worker
\* gets the semaphore, a worker about to send can always send, the result
\* channel is closed once and only when every worker is done, and the
\* collecting loop has received one result per worker when it exits.
C36_ScrapeAllTerminates ==
    /\ []CollectSafe
    /\ <>(fn.pc = "collected" /\ \A i \in DOMAIN fn.g : fn.g[i] # "wait")

C36_Witness ==
    /\ fn.pc = "collected"
    /\ fn.n > maxConcurrentRoleScrapes
    /\ fn.failing # {}
    /\ fn.failing # 1..fn.n
    /\ fn.received = fn.n


(***************************************************************************)
(* The usage table next to an append-only log (SpecLog): every committed   *)
(* batch goes through BatchRecordPrivilegeUsage into privilege_usage and,  *)
(* record by record, into fn.log, a table of the same columns that is only *)
(* ever inserted into.  fn.cutoff is the latest cutoff a purge has used.   *)
(***************************************************************************)
\* the records submitted over a behaviour
MaxLogged == 4

LogRoles == {RoleA_ARN, RoleB_Name}

\* a span start time inside second s, off the second for odd s
LogRecords ==
  {[Timestamp |-> TicksOf(s) + (s % TicksPerSec), IAMRole |-> p[1],
    Privilege |-> p[2], CallCount |-> 1] :
     s \in 0..MaxTime,
     p \in {<<RoleA_ARN, p_s3_GetObject>>, <<RoleB_Name, p_ec2_DescribeInstances>>}}

\* the instants a cutoff or a since can be
LogCutoffs == 0..TicksOf(MaxTime + 1)

\* INSERT INTO log VALUES (?, ?, ?, ?) with the values the upsert binds
LogInsert(log, r) ==
  log \cup {[timestamp |-> Unix(r.Timestamp), iam_role |-> r.IAMRole,
             privilege |-> r.Privilege, call_count |-> r.CallCount]}

RECURSIVE LogBatch(_, _)
LogBatch(log, records) ==
  IF Len(records) = 0 THEN log
  ELSE LogBatch(LogInsert(log, Head(records)), Tail(records))

InitLog ==
  /\ privilege_usage = {}
  /\ analysis_results = {}
  /\ tx = [r \in Reqs |-> txIdle]
  /\ ledger = ledgerEmpty
  /\ now = 0
  /\ assignments = <<>>
  /\ eng = engIdle
  /\ fn = [pc |-> "log", log |-> {}, logged |-> 0, cutoff |-> 0, purges |-> 0]

\* BatchRecordPrivilegeUsage(records) commits
LogCommit ==
  /\ fn.pc = "log"
  /\ \E records \in SeqsUpTo(LogRecords, MaxBatch) :
       /\ Len(records) > 0
       /\ fn.logged + Len(records) <= MaxLogged
       /\ privilege_usage' = ApplyBatch(privilege_usage, records)
       /\ fn' = [fn EXCEPT !.log = LogBatch(@, records),
                           !.logged = @ + Len(records)]
  /\ UNCHANGED <<analysis_results, tx, ledger, now, assignments, eng>>

\* PurgeOldRecords(before)
LogPurge ==
  /\ fn.pc = "log"
  /\ \E before \in LogCutoffs :
       /\ privilege_usage' = PurgeOldRecords(privilege_usage, before)
       /\ fn' = [fn EXCEPT !.cutoff = Max(@, before), !.purges = 1]
  /\ UNCHANGED <<analysis_results, tx, ledger, now, assignments, eng>>

NextLog == LogCommit \/ LogPurge

SpecLog == InitLog /\ [][NextLog]_vars

\* C38: one row per (identity, privilege) loses no window information:
\* for every since that no purge cutoff so far lies after, the observed
\* roles and each role's used privileges read from the upsert table are
\* those read from the append-only log of every committed record.
C38_TableRefinesLog ==
  fn.pc = "log" =>
    \A since \in LogCutoffs :
      since >= fn.cutoff =>
        /\ GetObservedRoles(privilege_usage, since) = GetObservedRoles(fn.log, since)
        /\ \A role \in LogRoles :
             GetUsedPrivilegesForRole(privilege_usage, role, since)
               = GetUsedPrivilegesForRole(fn.log, role, since)

\* a pair was submitted twice, the later record carrying the earlier
\* second; a purge has removed a row the log still holds, and a since not
\* before the cutoff still sees an identity
C38_Witness ==
  /\ fn.pc = "log" /\ fn.purges = 1 /\ fn.cutoff > 0
  /\ \E x \in privilege_usage : x.call_count >= 2
  /\ \E x \in privilege_usage, y \in fn.log :
       /\ x.iam_role = y.iam_role /\ x.privilege = y.privilege
       /\ y.timestamp < x.timestamp
  /\ \E y \in fn.log : \A x \in privilege_usage : x.iam_role # y.iam_role
  /\ \E since \in LogCutoffs :
       since >= fn.cutoff /\ GetObservedRoles(privilege_usage, since) # {}


(***************************************************************************)
(* ScrapeRole over policy documents (SpecDeny): each attached and inline   *)
(* policy of the role is a document that parsePolicyDocument is called on, *)
(* some of them denying what another one allows.                           *)
(***************************************************************************)
DenyDocuments ==
  {<<[Effect |-> e_Allow, Action |-> <<p_s3_GetObject>>]>>,
   <<[Effect |-> e_Allow, Action |-> <<p_s3_STAR, p_ec2_DescribeInstances>>]>>,
   <<[Effect |-> e_Allow, Action |-> <<STAR>>]>>,
   <<[Effect |-> e_Deny, Action |-> <<p_s3_GetObject>>]>>,
   <<[Effect |-> e_Deny, Action |-> <<p_s3_STAR>>]>>,
   <<[Effect |-> e_Deny, Action |-> <<STAR>>]>>,
   <<[Effect |-> e_Allow, Action |-> <<p_s3_GetObject, p_ec2_DescribeInstances>>],
     [Effect |-> e_Deny, Action |-> <<p_s3_GetObject>>]>>}

\* a policy of the role: its document and whether fetching or decoding it
\* fails
DenyPolicies == [doc : DenyDocuments, decodeErr : BOOLEAN]

\* getPolicyActions / GetRolePolicy + parsePolicyDocument for each policy of
\* a list
fetchPolicies(list) ==
  [i \in 1..Len(list) |->
     LET res == parsePolicyDocument(list[i].decodeErr, list[i].doc)
     IN [err |-> res.err, actions |-> res.actions, doc |-> list[i].doc]]

InitDeny ==
  /\ privilege_usage = {}
  /\ analysis_results = {}
  /\ tx = [r \in Reqs |-> txIdle]
  /\ ledger = ledgerEmpty
  /\ now = 0
  /\ assignments = <<>>
  /\ eng = engIdle
  /\ \E attached, inline \in SeqsUpTo(DenyPolicies, MaxPolicies) :
       /\ Len(attached) + Len(inline) <= MaxPolicies
       /\ fn = [pc |-> "denyArgs", attached |-> attached, inline |-> inline,
                inlineErr |-> FALSE, err |-> FALSE, ra |-> <<>>]

\* ra, err := s.ScrapeRole(ctx, role)
CallScrapeRoleDocuments ==
  /\ fn.pc = "denyArgs"
  /\ \E attachedErr, inlineErr \in BOOLEAN :
       LET res == ScrapeRole(ListedRole(2), attachedErr, fetchPolicies(fn.attached),
                             inlineErr, fetchPolicies(fn.inline))
       IN fn' = [fn EXCEPT !.pc = "denyScraped", !.inlineErr = inlineErr,
                           !.err = res.err, !.ra = res.ra]
  /\ UNCHANGED <<privilege_usage, analysis_results, tx, ledger, now, assignments, eng>>

NextDeny == CallScrapeRoleDocuments

SpecDeny == InitDeny /\ [][NextDeny]_vars

\* the documents ScrapeRole got the actions of
DocumentsRead ==
  {fn.attached[i].doc : i \in {k \in 1..Len(fn.attached) : ~fn.attached[k].decodeErr}}
    \cup (IF fn.inlineErr THEN {}
          ELSE {fn.inline[i].doc : i \in {k \in 1..Len(fn.inline) : ~fn.inline[k].decodeErr}})

\* a is denied by the deny-set D: exactly, by the wildcard of its service or
\* by *
DeniedBy(a, D) ==
  \/ STAR \in D
  \/ a \in D
  \/ \E i \in 1..Len(a) :
       /\ a[i] = ":" /\ \A j \in 1..(i - 1) : a[j] # ":"
       /\ SubSeq(a, 1, i) \o STAR \in D

\* C39: a Deny statement acts inside its own policy document only: an
\* action that one policy of the role allows and does not itself deny is
\* in the role's privileges, whatever the other policies of the role deny.
C39_DenyStaysInItsDocument ==
  (fn.pc = "denyScraped" /\ ~fn.err) =>
    \A doc \in DocumentsRead : \A a \in AllowSet(doc) :
      ~DeniedBy(a, DenySet(doc)) => a \in Range(fn.ra.Privileges)

\* s3:GetObject is allowed by one policy of the role and denied (exactly,
\* by s3:* or by *) by another, attached, policy of the same role
C39_Witness ==
  /\ fn.pc = "denyScraped" /\ ~fn.err /\ ~fn.inlineErr
  /\ p_s3_GetObject \in Range(fn.ra.Privileges)
  /\ \E doc \in DocumentsRead :
       p_s3_GetObject \in AllowSet(doc) /\ DenySet(doc) = {}
  /\ \E i \in 1..Len(fn.attached) :
       ~fn.attached[i].decodeErr /\ DenySet(fn.attached[i].doc) # {}
         /\ DeniedBy(p_s3_GetObject, DenySet(fn.attached[i].doc))
  /\ \E doc \in DocumentsRead : DeniedBy(p_s3_GetObject, DenySet(doc))
=============================================================================
